---- MODULE Spec2Model ----
(***************************************************************************)
(* store-watcher: the per-tick reconciliation of run_watcher               *)
(* (src/store_watcher/core.py).  One tick fetches the listing, sweeps      *)
(* absences, merges the present keys, re-checks the dropped keys through   *)
(* the detail endpoint, persists the whole map and notifies.               *)
(*                                                                         *)
(* Python values: None is NONE, strings are TLA+ strings, the optional     *)
(* boolean `available` is NONE / "True" / "False", an optional integer is  *)
(* << >> or <<n>>, a timestamp is an integer number of time units, a dict  *)
(* is a function whose DOMAIN is its key set, a composite key is the       *)
(* sequence of its pieces with ":" as a piece of its own.                  *)
(***************************************************************************)
EXTENDS Integers, Sequences, FiniteSets, TLC

\* ---------------------------------------------------------------- bounds
MaxTime == 4          \* the clock stops the model at this time
MaxStep == 2          \* longest time between the starts of two ticks
MaxWindow == 2        \* largest restock window (restock_delta)
MaxObs == 2           \* most observations of one listing fetch
MaxListeners == 3     \* most add_listener calls
MaxRaw == 3           \* longest --url value, in pieces
MaxLines == 3         \* most lines of a message body

\* ---------------------------------------------------------------- values
NONE == "None"
AvTrue == "True"
AvFalse == "False"
PRESENT == 1
ABSENT == 0

Truthy(s) == s # NONE /\ s # ""
Or(a, b) == IF Truthy(a) THEN a ELSE b
Str(v) == IF Truthy(v) THEN v ELSE ""
Get(d, k, default) == IF k \in DOMAIN d THEN d[k] ELSE default
Put(d, k, v) == [x \in DOMAIN d \cup {k} |-> IF x = k THEN v ELSE d[x]]
Range(s) == {s[i] : i \in DOMAIN s}
Count(s, x) == Cardinality({i \in DOMAIN s : s[i] = x})

RECURSIVE KeyOrder(_)
KeyOrder(S) == IF S = {} THEN << >>
               ELSE LET k == CHOOSE x \in S : TRUE IN <<k>> \o KeyOrder(S \ {k})

\* ---------------------------------------------------------------- keys
ManagedHost == <<"store.com">>
OtherHost == <<"other.com">>
Codes == {<<"1">>}

KeyOf(host, code) == host \o <<":">> \o code

RECURSIVE UpToColon(_)
UpToColon(k) == IF k = << >> \/ Head(k) = ":" THEN << >>
                ELSE <<Head(k)>> \o UpToColon(Tail(k))

KeyHost(key) == UpToColon(key)

\* key.split(":", 1)[-1]
RECURSIVE CodeOf(_)
CodeOf(key) == IF ":" \notin Range(key) THEN key
               ELSE IF Head(key) = ":" THEN Tail(key) ELSE CodeOf(Tail(key))

OtherKey == KeyOf(OtherHost, <<"1">>)

\* ---------------------------------------------------------------- urls
PlainUrl == "https://store.com/p"
HtmlUrl == "https://store.com/mickey-pin-1.html"

PrettyNameFromUrl(url) == IF url = HtmlUrl THEN "Mickey Pin" ELSE NONE

\* ---------------------------------------------------------------- records
NoAlloc == << >>

MakePresentRecord(url, now_iso, name, host, image, price, availability_message, available, in_stock_allocation, status) ==
    [ url |-> url,
      first_seen |-> now_iso,
      status |-> status,
      status_since |-> now_iso,
      name |-> IF Truthy(name) THEN name ELSE NONE,
      host |-> IF host # << >> THEN host ELSE << >>,
      image |-> IF Truthy(image) THEN image ELSE NONE,
      price |-> IF Truthy(price) THEN price ELSE NONE,
      prev_price |-> NONE,
      price_changed |-> FALSE,
      availability_message |->
          IF Truthy(availability_message) THEN availability_message ELSE NONE,
      prev_availability_message |-> NONE,
      availability_changed |-> FALSE,
      available |-> available,
      prev_available |-> NONE,
      in_stock_allocation |-> in_stock_allocation ]

\* mutant: the flag is only ever raised, never reset
TrackPrice_Sticky(info, price) ==
    IF Truthy(price) /\ price # info.price
    THEN [info EXCEPT !.prev_price = Or(info.price, ""),
                      !.price = price,
                      !.price_changed = TRUE]
    ELSE info

\* mutant: prev_price takes the new price
TrackPrice_PrevIsNew(info, price) ==
    IF Truthy(price) /\ price # info.price
    THEN [info EXCEPT !.prev_price = price,
                      !.price = price,
                      !.price_changed = TRUE]
    ELSE [info EXCEPT !.price_changed = FALSE]

TrackPrice(info, price) ==
    IF Truthy(price) /\ price # info.price
    THEN [info EXCEPT !.prev_price = Or(info.price, ""),
                      !.price = price,
                      !.price_changed = TRUE]
    ELSE [info EXCEPT !.price_changed = FALSE]

\* mutant: the flag follows the message only
TrackAvailability_MessageOnly(info, availability_message, available) ==
    LET msg_changed == Truthy(availability_message)
                       /\ availability_message # info.availability_message
        av_changed == available # NONE /\ available # info.available
        i1 == IF msg_changed
              THEN [info EXCEPT
                      !.prev_availability_message = Or(info.availability_message, ""),
                      !.availability_message = availability_message]
              ELSE info
        i2 == IF av_changed
              THEN [i1 EXCEPT !.prev_available = info.available,
                              !.available = available]
              ELSE i1
    IN [i2 EXCEPT !.availability_changed = msg_changed]

TrackAvailability(info, availability_message, available) ==
    LET msg_changed == Truthy(availability_message)
                       /\ availability_message # info.availability_message
        av_changed == available # NONE /\ available # info.available
        i1 == IF msg_changed
              THEN [info EXCEPT
                      !.prev_availability_message = Or(info.availability_message, ""),
                      !.availability_message = availability_message]
              ELSE info
        i2 == IF av_changed
              THEN [i1 EXCEPT !.prev_available = info.available,
                              !.available = available]
              ELSE i1
    IN [i2 EXCEPT !.availability_changed = msg_changed \/ av_changed]

ApplyChangeTracking(info, price, availability_message, available) ==
    TrackAvailability(TrackPrice(info, price), availability_message, available)

\* ---------------------------------------------------------------- listing
EmptyAcc ==
    [ present_keys |-> {},
      site_current_count |-> 0,
      url_for_key |-> << >>,
      name_for_key |-> << >>,
      image_for_key |-> << >>,
      price_for_key |-> << >>,
      availability_message_for_key |-> << >>,
      available_for_key |-> << >>,
      allocation_for_key |-> << >> ]

AccumulateItem(acc, it) ==
    LET key == KeyOf(ManagedHost, it.code)
        fallback == PrettyNameFromUrl(it.url)
    IN [ present_keys |-> acc.present_keys \cup {key},
         site_current_count |->
             IF it.available # AvFalse THEN acc.site_current_count + 1
             ELSE acc.site_current_count,
         available_for_key |-> Put(acc.available_for_key, key, it.available),
         url_for_key |->
             IF Truthy(it.url) THEN Put(acc.url_for_key, key, it.url)
             ELSE acc.url_for_key,
         name_for_key |->
             IF Truthy(it.title) THEN Put(acc.name_for_key, key, it.title)
             ELSE IF Truthy(it.url) /\ Truthy(fallback)
                  THEN Put(acc.name_for_key, key, fallback)
                  ELSE acc.name_for_key,
         image_for_key |->
             IF Truthy(it.image) THEN Put(acc.image_for_key, key, it.image)
             ELSE acc.image_for_key,
         price_for_key |->
             IF Truthy(it.price) THEN Put(acc.price_for_key, key, it.price)
             ELSE acc.price_for_key,
         availability_message_for_key |->
             IF Truthy(it.availability)
             THEN Put(acc.availability_message_for_key, key, it.availability)
             ELSE acc.availability_message_for_key,
         allocation_for_key |->
             Put(acc.allocation_for_key, key, it.in_stock_allocation) ]

RECURSIVE Accumulate(_, _)
Accumulate(items, acc) ==
    IF items = << >> THEN acc
    ELSE Accumulate(Tail(items), AccumulateItem(acc, Head(items)))

\* ---------------------------------------------------------------- tick passes
\* mutant: the sweep does not look at the key's host
MarkAbsences_AnyHost(st, present_keys, now_iso) ==
    [key \in DOMAIN st |->
        IF key \notin present_keys /\ st[key].status = PRESENT
        THEN [st[key] EXCEPT !.status = ABSENT, !.status_since = now_iso]
        ELSE st[key]]

\* mutant: the sweep keeps the old status_since
MarkAbsences_KeepSince(st, present_keys, now_iso) ==
    [key \in DOMAIN st |->
        IF KeyHost(key) # ManagedHost THEN st[key]
        ELSE IF key \notin present_keys /\ st[key].status = PRESENT
             THEN [st[key] EXCEPT !.status = ABSENT]
             ELSE st[key]]

\* mark absences (only for our host)
MarkAbsences(st, present_keys, now_iso) ==
    [key \in DOMAIN st |->
        IF KeyHost(key) # ManagedHost THEN st[key]
        ELSE IF key \notin present_keys /\ st[key].status = PRESENT
             THEN [st[key] EXCEPT !.status = ABSENT, !.status_since = now_iso]
             ELSE st[key]]

\* mutant: the window comparison is strict
UpdateStatus_Strict(info, preferred_available, now_dt, window) ==
    IF preferred_available = AvFalse
    THEN [info |-> [info EXCEPT
                      !.status_since = IF info.status # ABSENT THEN now_dt ELSE @,
                      !.status = ABSENT],
          restocked |-> FALSE]
    ELSE IF info.status = ABSENT
         THEN [info |-> [info EXCEPT !.status = PRESENT, !.status_since = now_dt],
               restocked |-> now_dt - info.status_since > window]
         ELSE [info |-> [info EXCEPT !.status = PRESENT], restocked |-> FALSE]

\* mutant: status_since is the time the item was last seen
UpdateStatus_LastSeen(info, preferred_available, now_dt, window) ==
    IF preferred_available = AvFalse
    THEN [info |-> [info EXCEPT
                      !.status_since = IF info.status # ABSENT THEN now_dt ELSE @,
                      !.status = ABSENT],
          restocked |-> FALSE]
    ELSE IF info.status = ABSENT
         THEN [info |-> [info EXCEPT !.status = PRESENT, !.status_since = now_dt],
               restocked |-> now_dt - info.status_since >= window]
         ELSE [info |-> [info EXCEPT !.status = PRESENT, !.status_since = now_dt],
               restocked |-> FALSE]

\* mutant: an explicitly unavailable observation stamps the time and
\* forgets to set the status
UpdateStatus_NoAbsent(info, preferred_available, now_dt, window) ==
    IF preferred_available = AvFalse
    THEN [info |-> [info EXCEPT
                      !.status_since = IF info.status # ABSENT THEN now_dt ELSE @],
          restocked |-> FALSE]
    ELSE IF info.status = ABSENT
         THEN [info |-> [info EXCEPT !.status = PRESENT, !.status_since = now_dt],
               restocked |-> now_dt - info.status_since >= window]
         ELSE [info |-> [info EXCEPT !.status = PRESENT], restocked |-> FALSE]

\* the status branch of the listing merge; restocked says whether the key
\* is appended to site_restocked
UpdateStatus(info, preferred_available, now_dt, window) ==
    IF preferred_available = AvFalse
    THEN [info |-> [info EXCEPT
                      !.status_since = IF info.status # ABSENT THEN now_dt ELSE @,
                      !.status = ABSENT],
          restocked |-> FALSE]
    ELSE IF info.status = ABSENT
         THEN [info |-> [info EXCEPT !.status = PRESENT, !.status_since = now_dt],
               restocked |-> now_dt - info.status_since >= window]
         ELSE [info |-> [info EXCEPT !.status = PRESENT], restocked |-> FALSE]

Preferred(st, acc, key) ==
    LET has == key \in DOMAIN st
        stored_url == IF has THEN st[key].url ELSE ""
        stored_name == IF has THEN st[key].name ELSE NONE
        stored_image == IF has /\ st[key].image # NONE THEN st[key].image ELSE ""
        stored_price == IF has THEN st[key].price ELSE NONE
        stored_msg == IF has THEN st[key].availability_message ELSE NONE
        stored_available ==
            IF has /\ st[key].available # NONE THEN st[key].available ELSE AvTrue
        stored_alloc == IF has THEN st[key].in_stock_allocation ELSE NoAlloc
    IN [ url |-> Get(acc.url_for_key, key, stored_url),
         name |-> Or(Get(acc.name_for_key, key, NONE), stored_name),
         img |-> Get(acc.image_for_key, key, stored_image),
         price |-> Or(Get(acc.price_for_key, key, NONE), stored_price),
         availability_msg |->
             Or(Get(acc.availability_message_for_key, key, NONE), stored_msg),
         available |-> Get(acc.available_for_key, key, stored_available),
         allocation |-> Get(acc.allocation_for_key, key, stored_alloc) ]

\* mutant: a new record is always created PRESENT
NewRecord_AlwaysPresent(p, now_iso) ==
    MakePresentRecord(p.url, now_iso, p.name, ManagedHost,
                      IF Truthy(p.img) THEN p.img ELSE NONE,
                      p.price, p.availability_msg, p.available, p.allocation,
                      PRESENT)

NewRecord(p, now_iso) ==
    MakePresentRecord(p.url, now_iso, p.name, ManagedHost,
                      IF Truthy(p.img) THEN p.img ELSE NONE,
                      p.price, p.availability_msg, p.available, p.allocation,
                      IF p.available # AvFalse THEN PRESENT ELSE ABSENT)

\* mutant: a fresh image replaces the stored one
MergeFields_ImageReplaced(info, p) ==
    LET i1 == IF Truthy(p.url) /\ p.url # info.url
              THEN [info EXCEPT !.url = p.url] ELSE info
        i2 == IF Truthy(p.name) /\ p.name # i1.name
              THEN [i1 EXCEPT !.name = p.name] ELSE i1
        i3 == IF Truthy(p.img)
              THEN [i2 EXCEPT !.image = p.img] ELSE i2
        i4 == ApplyChangeTracking(i3, p.price, p.availability_msg, p.available)
        i5 == IF p.allocation # NoAlloc
              THEN [i4 EXCEPT !.in_stock_allocation = p.allocation] ELSE i4
    IN IF i5.host = << >> THEN [i5 EXCEPT !.host = ManagedHost] ELSE i5

MergeFields(info, p) ==
    LET i1 == IF Truthy(p.url) /\ p.url # info.url
              THEN [info EXCEPT !.url = p.url] ELSE info
        i2 == IF Truthy(p.name) /\ p.name # i1.name
              THEN [i1 EXCEPT !.name = p.name] ELSE i1
        i3 == IF Truthy(p.img) /\ ~Truthy(i2.image)
              THEN [i2 EXCEPT !.image = p.img] ELSE i2
        i4 == ApplyChangeTracking(i3, p.price, p.availability_msg, p.available)
        i5 == IF p.allocation # NoAlloc
              THEN [i4 EXCEPT !.in_stock_allocation = p.allocation] ELSE i4
    IN IF i5.host = << >> THEN [i5 EXCEPT !.host = ManagedHost] ELSE i5

MergePresent(info, p, now_dt, window) ==
    UpdateStatus(MergeFields(info, p), p.available, now_dt, window)

\* mutant: the merge keeps only the records of the present set and of other hosts
HandlePresent_OnlyListed(st, acc, now_dt, window) ==
    LET order == KeyOrder(acc.present_keys)
        merged(key) == MergePresent(st[key], Preferred(st, acc, key), now_dt, window)
        IsNew(key) == key \notin DOMAIN st
        IsRestocked(key) == key \in DOMAIN st /\ merged(key).restocked
        others == {k \in DOMAIN st : KeyHost(k) # ManagedHost}
    IN [ state |-> [key \in others \cup acc.present_keys |->
                      IF key \notin acc.present_keys THEN st[key]
                      ELSE IF key \notin DOMAIN st
                           THEN NewRecord(Preferred(st, acc, key), now_dt)
                           ELSE merged(key).info],
         site_new |-> SelectSeq(order, IsNew),
         site_restocked |-> SelectSeq(order, IsRestocked) ]

\* mutant: a record that comes back is reported as new as well
HandlePresent_BackIsNew(st, acc, now_dt, window) ==
    LET order == KeyOrder(acc.present_keys)
        merged(key) == MergePresent(st[key], Preferred(st, acc, key), now_dt, window)
        IsRestocked(key) == key \in DOMAIN st /\ merged(key).restocked
        IsNew(key) == key \notin DOMAIN st \/ IsRestocked(key)
    IN [ state |-> [key \in DOMAIN st \cup acc.present_keys |->
                      IF key \notin acc.present_keys THEN st[key]
                      ELSE IF key \notin DOMAIN st
                           THEN NewRecord(Preferred(st, acc, key), now_dt)
                           ELSE merged(key).info],
         site_new |-> SelectSeq(order, IsNew),
         site_restocked |-> SelectSeq(order, IsRestocked) ]

\* handle present items
HandlePresent(st, acc, now_dt, window) ==
    LET order == KeyOrder(acc.present_keys)
        merged(key) == MergePresent(st[key], Preferred(st, acc, key), now_dt, window)
        IsNew(key) == key \notin DOMAIN st
        IsRestocked(key) == key \in DOMAIN st /\ merged(key).restocked
    IN [ state |-> [key \in DOMAIN st \cup acc.present_keys |->
                      IF key \notin acc.present_keys THEN st[key]
                      ELSE IF key \notin DOMAIN st
                           THEN NewRecord(Preferred(st, acc, key), now_dt)
                           ELSE merged(key).info],
         site_new |-> SelectSeq(order, IsNew),
         site_restocked |-> SelectSeq(order, IsRestocked) ]

\* mutant: a detail without availability signal counts as available
RecheckStatus_NoSignalPresent(info, prev_status, prev_status_since, available, now_dt, window) ==
    IF available = AvFalse
    THEN [info |-> [info EXCEPT
                      !.status_since = IF prev_status # ABSENT THEN now_dt ELSE @,
                      !.status = ABSENT],
          restocked |-> FALSE]
    ELSE [info |-> [info EXCEPT
                      !.status_since = IF prev_status = ABSENT THEN now_dt ELSE @,
                      !.status = PRESENT],
          restocked |-> prev_status = ABSENT
                        /\ now_dt - prev_status_since >= window]

\* one record of the detail re-check; detail_item is a found Item
RecheckStatus(info, prev_status, prev_status_since, available, now_dt, window) ==
    IF available = AvFalse
    THEN [info |-> [info EXCEPT
                      !.status_since = IF prev_status # ABSENT THEN now_dt ELSE @,
                      !.status = ABSENT],
          restocked |-> FALSE]
    ELSE IF available = AvTrue
         THEN [info |-> [info EXCEPT
                           !.status_since = IF prev_status = ABSENT THEN now_dt ELSE @,
                           !.status = PRESENT],
               restocked |-> prev_status = ABSENT
                             /\ now_dt - prev_status_since >= window]
         ELSE [info |-> info, restocked |-> FALSE]

RecheckRecord(info, detail_item, now_dt, window) ==
    LET i1 == IF Truthy(detail_item.url)
              THEN [info EXCEPT !.url = detail_item.url] ELSE info
        i2 == IF Truthy(detail_item.title)
              THEN [i1 EXCEPT !.name = detail_item.title] ELSE i1
        i3 == IF Truthy(detail_item.image) /\ ~Truthy(i2.image)
              THEN [i2 EXCEPT !.image = detail_item.image] ELSE i2
        i4 == ApplyChangeTracking(i3, detail_item.price, detail_item.availability,
                                  detail_item.available)
        i5 == IF detail_item.in_stock_allocation # NoAlloc
              THEN [i4 EXCEPT !.in_stock_allocation = detail_item.in_stock_allocation]
              ELSE i4
    IN RecheckStatus(i5, info.status, info.status_since, detail_item.available,
                     now_dt, window)

\* mutant: the first failed lookup ends the pass
RecheckDetails_StopAtFailure(st, present_keys, det, now_dt, window) ==
    LET host_keys == {k \in DOMAIN st : KeyHost(k) = ManagedHost}
        todo == IF \E k \in host_keys \ present_keys : det[k] = << >> THEN {}
                ELSE host_keys \ present_keys
        done(key) == RecheckRecord(st[key], det[key][1], now_dt, window)
        IsRestocked(key) == done(key).restocked
    IN [ state |-> [key \in DOMAIN st |->
                      IF key \in todo THEN done(key).info ELSE st[key]],
         site_restocked |-> SelectSeq(KeyOrder(todo), IsRestocked) ]

\* Re-check all known items for this host (not just ones seen in the grid);
\* det[key] is << >> when fetch_details raised or returned nothing
RecheckDetails(st, present_keys, det, now_dt, window) ==
    LET host_keys == {k \in DOMAIN st : KeyHost(k) = ManagedHost}
        todo == {k \in host_keys \ present_keys : det[k] # << >>}
        done(key) == RecheckRecord(st[key], det[key][1], now_dt, window)
        IsRestocked(key) == done(key).restocked
    IN [ state |-> [key \in DOMAIN st |->
                      IF key \in todo THEN done(key).info ELSE st[key]],
         site_restocked |-> SelectSeq(KeyOrder(todo), IsRestocked) ]

\* ---------------------------------------------------------------- sfcc adapter
\* what session.get of the Product-Variation URL comes back with: the request
\* or raise_for_status raises ("http_error"), r.json() raises ("bad_json"),
\* the JSON is not an object ("not_object"), or it is a payload whose
\* product.availability holds inStockAllocation and displayLowStockMessage
SfccResponse(kind, inStockAllocation, displayLowStockMessage) ==
    [ kind |-> kind, inStockAllocation |-> inStockAllocation,
      displayLowStockMessage |-> displayLowStockMessage ]

SfccResponses ==
    {SfccResponse(k, << >>, NONE) : k \in {"http_error", "bad_json", "not_object"}}
    \cup {SfccResponse("payload", a, m) :
              a \in {<< >>, <<0>>, <<2>>}, m \in {NONE, AvTrue, AvFalse}}

ParseVariationPayload(payload) ==
    LET stock_allocation ==
            IF payload.inStockAllocation = << >> THEN 0
            ELSE payload.inStockAllocation[1]
        available == stock_allocation > 0
        message == IF payload.displayLowStockMessage = AvTrue THEN "Low Stock"
                   ELSE IF payload.displayLowStockMessage = AvFalse /\ ~available
                        THEN "Out of Stock"
                        ELSE NONE
    IN [ available |-> available,
         availability_message |-> message,
         image |-> NONE,
         url |-> NONE,
         title |-> NONE,
         price |-> NONE,
         in_stock_allocation |-> stock_allocation ]

\* the Item fetch_details returns when the request or the decoding failed
StubItem(code) ==
    [ code |-> code, url |-> "", title |-> NONE, image |-> NONE, price |-> NONE,
      availability |-> NONE, available |-> AvFalse, in_stock_allocation |-> <<0>> ]

\* raised: the call ends in an exception; item: << >> or <<the Item returned>>
FetchDetails(code, response) ==
    IF response.kind \in {"http_error", "bad_json"}
    THEN [raised |-> FALSE, item |-> <<StubItem(code)>>]
    ELSE IF response.kind = "not_object"
    THEN [raised |-> TRUE, item |-> << >>]
    ELSE LET parsed == ParseVariationPayload(response)
         IN IF DOMAIN parsed = {}
            THEN [raised |-> FALSE, item |-> <<StubItem(code)>>]
            ELSE [raised |-> FALSE,
                  item |-> << [ code |-> code,
                                url |-> Str(parsed.url),
                                title |-> Or(parsed.title, NONE),
                                image |-> Or(parsed.image, NONE),
                                price |-> Or(parsed.price, NONE),
                                availability |-> Or(parsed.availability_message, NONE),
                                available |-> IF parsed.available THEN AvTrue ELSE AvFalse,
                                in_stock_allocation |-> <<parsed.in_stock_allocation>> ] >>]

\* the tick's call of fetch_details: an exception counts as nothing found
DetailLookup(key, response) ==
    LET r == FetchDetails(CodeOf(key), response)
    IN IF r.raised THEN << >> ELSE r.item

\* ---------------------------------------------------------------- store
\* an optional boolean is stored as an INTEGER column: NULL, 0 or 1
BoolToInt(v) == IF v = NONE THEN << >> ELSE IF v = AvTrue THEN <<1>> ELSE <<0>>

IntToBool(c) == IF c = << >> THEN NONE ELSE IF c[1] # 0 THEN AvTrue ELSE AvFalse

RowOf(key, rec) ==
    [ url |-> Str(rec.url),
      first_seen |-> rec.first_seen,
      status |-> rec.status,
      status_since |-> rec.status_since,
      name |-> Str(rec.name),
      host |-> rec.host,
      image |-> Str(rec.image),
      price |-> Str(rec.price),
      prev_price |-> Str(rec.prev_price),
      price_changed |-> rec.price_changed,
      availability_message |-> Str(rec.availability_message),
      prev_availability_message |-> Str(rec.prev_availability_message),
      availability_changed |-> rec.availability_changed,
      available |-> BoolToInt(rec.available),
      prev_available |-> BoolToInt(rec.prev_available),
      in_stock_allocation |-> rec.in_stock_allocation ]

SaveItems(items, stored) ==
    [key \in DOMAIN stored \cup DOMAIN items |->
        IF key \in DOMAIN items THEN RowOf(key, items[key]) ELSE stored[key]]

\* load_items_dict: an empty optional column is a missing field
LoadRecord(row) ==
    [ url |-> Str(row.url),
      first_seen |-> row.first_seen,
      status |-> row.status,
      status_since |-> row.status_since,
      name |-> Or(row.name, NONE),
      host |-> row.host,
      image |-> Or(row.image, NONE),
      price |-> Or(row.price, NONE),
      prev_price |-> Or(row.prev_price, NONE),
      price_changed |-> row.price_changed,
      availability_message |-> Or(row.availability_message, NONE),
      prev_availability_message |-> Or(row.prev_availability_message, NONE),
      availability_changed |-> row.availability_changed,
      available |-> IntToBool(row.available),
      prev_available |-> IntToBool(row.prev_available),
      in_stock_allocation |-> row.in_stock_allocation ]

LoadItemsDict(rows) == [key \in DOMAIN rows |-> LoadRecord(rows[key])]

\* ---------------------------------------------------------------- key migration
Composite(k) == ":" \in Range(k)

\* the orders in which a dict can hold the keys S
Orders(S) == {o \in [1..Cardinality(S) -> S] : Range(o) = S}

SetDefaultHost(v, host) == IF v.host = << >> THEN [v EXCEPT !.host = host] ELSE v

\* mutant: every key gets the prefix, composite or not
MigrateKey_AlwaysPrefix(upgraded, k, v, default_host) ==
    Put(upgraded, KeyOf(default_host, k), SetDefaultHost(v, default_host))

\* one pass of the loop of core._migrate_keys_to_composite
MigrateKey(upgraded, k, v, default_host) ==
    IF Composite(k)
    THEN Put(upgraded, k, SetDefaultHost(v, KeyHost(k)))
    ELSE Put(upgraded, KeyOf(default_host, k), SetDefaultHost(v, default_host))

RECURSIVE MigrateFrom(_, _, _, _)
MigrateFrom(upgraded, st, order, default_host) ==
    IF order = << >> THEN upgraded
    ELSE MigrateFrom(MigrateKey(upgraded, Head(order), st[Head(order)], default_host),
                     st, Tail(order), default_host)

\* core._migrate_keys_to_composite; order is the iteration order of `state`
MigrateKeysToComposite(st, order, default_host) ==
    MigrateFrom(<< >>, st, order, default_host)

\* the model's codes are all digits, its URLs name code 1 in an .html file
IsDigit(k) == k \in Codes \cup {<<"2">>}
ExtractProductCode(url) == IF url = HtmlUrl THEN <<"1">> ELSE << >>

\* one pass of the loop of state.migrate_keys_to_composite
StateMigrateKey(upgraded, k, v, default_host) ==
    IF Composite(k)
    THEN Put(upgraded, k, SetDefaultHost(v, KeyHost(k)))
    ELSE LET code == IF IsDigit(k) THEN k
                     ELSE IF ExtractProductCode(v.url) # << >>
                          THEN ExtractProductCode(v.url) ELSE k
             host == IF v.host # << >> THEN v.host ELSE default_host
         IN Put(upgraded, KeyOf(host, code), SetDefaultHost(v, host))

RECURSIVE StateMigrateFrom(_, _, _, _)
StateMigrateFrom(upgraded, st, order, default_host) ==
    IF order = << >> THEN upgraded
    ELSE StateMigrateFrom(StateMigrateKey(upgraded, Head(order), st[Head(order)], default_host),
                          st, Tail(order), default_host)

\* state.migrate_keys_to_composite
StateMigrateKeysToComposite(st, order, default_host) ==
    StateMigrateFrom(<< >>, st, order, default_host)

\* ---------------------------------------------------------------- target url
\* a string is the sequence of its pieces; an optional string is << >> (None)
\* or <<s>>
Whitespace == {" ", "\n"}

RECURSIVE LStrip(_)
LStrip(s) == IF s # << >> /\ Head(s) \in Whitespace THEN LStrip(Tail(s)) ELSE s

RECURSIVE RStrip(_)
RStrip(s) == IF s # << >> /\ s[Len(s)] \in Whitespace
             THEN RStrip(SubSeq(s, 1, Len(s) - 1)) ELSE s

Strip(s) == RStrip(LStrip(s))

\* re.split(r"[,\n]", raw), `part` being the entry read so far
RECURSIVE SplitEntries(_, _)
SplitEntries(s, part) ==
    IF s = << >> THEN <<part>>
    ELSE IF Head(s) \in {",", "\n"} THEN <<part>> \o SplitEntries(Tail(s), << >>)
    ELSE SplitEntries(Tail(s), Append(part, Head(s)))

NonBlank(p) == p # << >>

Candidates(raw) ==
    LET parts == SplitEntries(raw, << >>)
    IN SelectSeq([i \in DOMAIN parts |-> Strip(parts[i])], NonBlank)

\* mutant: the first entry is taken and the others are dropped
NormalizeSingleUrl_FirstWins(raw) ==
    IF raw = << >> THEN [raised |-> FALSE, url |-> << >>]
    ELSE LET candidates == Candidates(raw[1])
         IN [raised |-> FALSE,
             url |-> IF candidates # << >> THEN candidates[1] ELSE << >>]

NormalizeSingleUrl(raw) ==
    IF raw = << >> THEN [raised |-> FALSE, url |-> << >>]
    ELSE LET candidates == Candidates(raw[1])
         IN IF Len(candidates) > 1 THEN [raised |-> TRUE, url |-> << >>]
            ELSE [raised |-> FALSE,
                  url |-> IF candidates # << >> THEN candidates[1] ELSE << >>]

GridComponents ==
    {"TARGET_HOST", "TARGET_REGION_SLUG", "TARGET_LOCALE", "TARGET_CATEGORY_SLUG"}

GridUrl == <<"grid">>

\* env is the environment: TARGET_URL, the grid components that are set,
\* STATE_DB
ResolveTargetUrl(url_override, env) ==
    LET direct ==
            NormalizeSingleUrl(IF url_override # << >> /\ url_override[1] # << >>
                               THEN url_override
                               ELSE <<Strip(env.TARGET_URL)>>)
    IN IF direct.raised \/ direct.url # << >> THEN direct
       ELSE IF GridComponents \subseteq env.components
            THEN [raised |-> FALSE, url |-> GridUrl]
            ELSE [raised |-> FALSE, url |-> << >>]

\* run_watcher gets past its configuration checks
ConfigOk(url_override, env) ==
    LET target == ResolveTargetUrl(url_override, env)
    IN ~target.raised /\ target.url # << >> /\ Strip(env.STATE_DB) # << >>

\* site_label: a host outside the regional domains is a US site
SiteLabel(host) == "US"

\* ---------------------------------------------------------------- listeners
\* the listeners table: id -> row; a user_id argument is << >> (None) or <<u>>
Upper(region) ==
    IF region = "us" THEN "US" ELSE IF region = "all" THEN "ALL" ELSE region

RECURSIVE Descending(_)
Descending(S) ==
    IF S = {} THEN << >>
    ELSE LET m == CHOOSE x \in S : \A y \in S : y <= x
         IN <<m>> \o Descending(S \ {m})

ListenerRow(listener) ==
    [ region |-> Upper(listener.region),
      kind |-> listener.kind,
      enabled |-> IF listener.enabled THEN 1 ELSE 0,
      name |-> listener.name,
      config |-> listener.config,
      user_id |-> listener.user_id ]

AddListener(table, new_id, listener) == Put(table, new_id, ListenerRow(listener))

ListenerOf(id, row) ==
    [ id |-> id,
      region |-> Upper(row.region),
      kind |-> row.kind,
      enabled |-> row.enabled # 0,
      name |-> row.name,
      config |-> row.config,
      user_id |-> row.user_id ]

ListListeners(table, user_id, region) ==
    LET rows == {id \in DOMAIN table :
                    /\ user_id # << >> => table[id].user_id = user_id[1]
                    /\ (Truthy(region) /\ Upper(region) # "ALL")
                           => table[id].region \in {Upper(region), "ALL"}}
        ids == Descending(rows)
    IN [i \in DOMAIN ids |-> ListenerOf(ids[i], table[ids[i]])]

\* mutant: the UPDATE is not restricted to the rows of the user
SetListenerEnabled_AnyOwner(table, listener_id, enabled, user_id) ==
    [id \in DOMAIN table |->
        IF id = listener_id
        THEN [table[id] EXCEPT !.enabled = IF enabled THEN 1 ELSE 0]
        ELSE table[id]]

SetListenerEnabled(table, listener_id, enabled, user_id) ==
    [id \in DOMAIN table |->
        IF id = listener_id /\ (user_id # << >> => table[id].user_id = user_id[1])
        THEN [table[id] EXCEPT !.enabled = IF enabled THEN 1 ELSE 0]
        ELSE table[id]]

DeleteListener(table, listener_id, user_id) ==
    LET gone == {id \in DOMAIN table :
                    /\ id = listener_id
                    /\ user_id # << >> => table[id].user_id = user_id[1]}
    IN [id \in DOMAIN table \ gone |-> table[id]]

\* the notifiers of the enabled listeners of the region (or ALL) whose
\* settings are complete, in the order list_listeners returns them
BuildNotifiersFromDb(table, region) ==
    LET found == ListListeners(table, << >>, region)
        Usable(l) ==
            /\ l.enabled
            /\ \/ l.kind = "discord" /\ Truthy(l.config.webhook_url)
               \/ /\ l.kind = "email"
                  /\ Truthy(l.config.smtp_host) /\ Truthy(l.config.smtp_user)
                  /\ Truthy(l.config.smtp_pass) /\ Truthy(l.config.to)
        kept == SelectSeq(found, Usable)
    IN [i \in DOMAIN kept |->
           [kind |-> kept[i].kind,
            target |-> IF kept[i].kind = "discord" THEN kept[i].config.webhook_url
                       ELSE kept[i].config.to]]

\* ---------------------------------------------------------------- users
\* the users table: id -> row; picture is NONE when null
UpsertUserGoogle_AlwaysInsert(table, seq, sub, email, name, picture) ==
    LET row == [provider |-> "google", sub |-> sub, email |-> email,
                name |-> name, picture |-> picture]
        after == Put(table, seq + 1, row)
        id == CHOOSE i \in DOMAIN after : after[i].provider = "google" /\ after[i].sub = sub
    IN [users |-> after, seq |-> seq + 1, user |-> [id |-> id] @@ after[id]]

UpsertUserGoogle(table, seq, sub, email, name, picture) ==
    LET matched == {i \in DOMAIN table : table[i].provider = "google" /\ table[i].sub = sub}
        row == [provider |-> "google", sub |-> sub, email |-> email,
                name |-> name, picture |-> picture]
        after == IF matched = {} THEN Put(table, seq + 1, row)
                 ELSE [i \in DOMAIN table |->
                          IF i \in matched
                          THEN [table[i] EXCEPT !.email = email, !.name = name,
                                                !.picture = picture]
                          ELSE table[i]]
        id == CHOOSE i \in DOMAIN after : after[i].provider = "google" /\ after[i].sub = sub
    IN [users |-> after,
        seq |-> IF matched = {} THEN seq + 1 ELSE seq,
        user |-> [id |-> id] @@ after[id]]

NoUser == [id |-> 0, provider |-> NONE, sub |-> NONE, email |-> NONE,
           name |-> NONE, picture |-> NONE]

GetUserById(table, user_id) ==
    IF user_id \in DOMAIN table THEN [id |-> user_id] @@ table[user_id] ELSE NoUser

\* ---------------------------------------------------------------- state
VARIABLES
    state,            \* run_watcher's in-memory record map
    db,               \* the rows of the items table
    restock_delta,    \* the restock window of this run
    clock,            \* wall clock at the start of the latest tick
    tick_now,         \* now_iso of the latest tick that ran to its end
    prior,            \* the record map at the start of that tick
    listing,          \* the Items the adapter yielded in that tick
    details,          \* key -> << >> or <<Item>>: fetch_details results of that tick
    present_keys,     \* present_keys of that tick
    new_codes,        \* new_codes of that tick
    restocked_codes,  \* restocked_codes of that tick
    total_now,        \* total_now of that tick
    notified,         \* whether that tick called the notifiers
    before,           \* the tick before that one: time, who dropped out, events
    born,             \* key -> now_iso of the tick that created the record
    streak,           \* keys listed in every tick since the one that created them
    steady,           \* those of streak never listed as explicitly unavailable
    price_was,        \* key -> the price held just before its latest change
    phase,            \* "boot" before run_watcher loaded the store, "run" after
    loaded,           \* the record map load_items_dict returned at startup
    responses,        \* key -> what the detail lookup of that tick got back
    once,             \* run_watcher's once argument
    url_override,     \* run_watcher's url_override argument
    env,              \* the environment: TARGET_URL, grid components, STATE_DB
    notifiers,        \* the notifiers build_notifiers_from_db returned
    ticks,            \* how many times the loop called tick()
    sleeps,           \* how many times the loop slept
    sends,            \* the send calls of the current tick, in call order
    raised,           \* what the current tick raised: NONE, "fetch" or "persist"
    listeners,        \* the rows of the listeners table
    listener_seq,     \* the AUTOINCREMENT sequence of the listeners table
    users,            \* the rows of the users table
    user_seq,         \* the AUTOINCREMENT sequence of the users table
    call,             \* the latest call on the listeners or users table
    returned,         \* what that call returned
    added,            \* id -> the user every add_listener call was for
    deleted           \* the <<id, user>> of every delete_listener call

driver == <<once, url_override, env, notifiers, ticks, sleeps, sends, raised>>

admin == <<listeners, listener_seq, users, user_seq, call, returned, added, deleted>>

vars == <<state, db, restock_delta, clock, tick_now, prior, listing, details,
          present_keys, new_codes, restocked_codes, total_now, notified,
          before, born, streak, steady, price_was, phase, loaded, responses,
          driver, admin>>

\* ---------------------------------------------------------------- inputs
Prices == {NONE, "$10", "$12"}
Availables == {NONE, AvTrue, AvFalse}

Items(prices, availables) ==
    [ code : Codes, url : {PlainUrl}, title : {NONE}, image : {NONE},
      price : prices, availability : {NONE}, available : availables,
      in_stock_allocation : {NoAlloc} ]

Listings(S) == UNION {[1..n -> S] : n \in 0..MaxObs}
DetailResults(S) == {<< >>} \cup {<<it>> : it \in S}

\* what the tick kept for a key: the fields of its last observation
LastOf(items, key) ==
    LET idx == {i \in DOMAIN items : KeyOf(ManagedHost, items[i].code) = key}
    IN items[CHOOSE i \in idx : \A j \in idx : j <= i]

OtherRecord ==
    [ url |-> PlainUrl, first_seen |-> 0, status |-> PRESENT, status_since |-> 0,
      name |-> "Other", host |-> OtherHost, image |-> NONE,
      price |-> "$10", prev_price |-> "$12", price_changed |-> TRUE,
      availability_message |-> NONE, prev_availability_message |-> NONE,
      availability_changed |-> TRUE, available |-> AvTrue,
      prev_available |-> AvFalse, in_stock_allocation |-> NoAlloc ]

NoTick == [tick_now |-> 0, dropped |-> {}, found |-> {}, restocked |-> {}]

\* an environment run_watcher accepts: one URL and a store location
EnvDirect ==
    [TARGET_URL |-> <<" ", "a", " ">>, components |-> {}, STATE_DB |-> <<"state.db">>]

NoCall == [op |-> NONE]

\* the loop has not started and no notifier is configured
DriverIdle ==
    /\ once = FALSE
    /\ url_override = << >>
    /\ env = EnvDirect
    /\ notifiers = << >>
    /\ ticks = 0
    /\ sleeps = 0
    /\ sends = << >>
    /\ raised = NONE

\* no tick has run yet
TickIdle ==
    /\ responses = << >>
    /\ restock_delta = 0
    /\ clock = 0
    /\ tick_now = 0
    /\ prior = << >>
    /\ listing = << >>
    /\ details = << >>
    /\ present_keys = {}
    /\ new_codes = << >>
    /\ restocked_codes = << >>
    /\ total_now = 0
    /\ notified = FALSE
    /\ before = NoTick
    /\ born = << >>
    /\ streak = {}
    /\ steady = {}
    /\ price_was = << >>

\* empty listeners and users tables
AdminIdle ==
    /\ listeners = << >>
    /\ listener_seq = 0
    /\ users = << >>
    /\ user_seq = 0
    /\ call = NoCall
    /\ returned = << >>
    /\ added = << >>
    /\ deleted = {}

Init ==
    /\ state = [k \in {OtherKey} |-> OtherRecord]
    /\ db = SaveItems(state, << >>)
    /\ restock_delta \in 0..MaxWindow
    /\ clock = 0
    /\ tick_now = 0
    /\ prior = << >>
    /\ listing = << >>
    /\ details = << >>
    /\ present_keys = {}
    /\ new_codes = << >>
    /\ restocked_codes = << >>
    /\ total_now = 0
    /\ notified = FALSE
    /\ before = NoTick
    /\ born = << >>
    /\ streak = {}
    /\ steady = {}
    /\ price_was = [k \in {OtherKey} |-> "$12"]
    /\ phase = "run"
    /\ loaded = << >>
    /\ responses = << >>
    /\ DriverIdle
    /\ AdminIdle

\* ---------------------------------------------------------------- tick
HostKeys(st) == {k \in DOMAIN st : KeyHost(k) = ManagedHost}

\* keys that were PRESENT at the start of the latest tick and not in its listing
Dropped == {k \in HostKeys(prior) \ present_keys : prior[k].status = PRESENT}

\* keys whose detail lookup of the latest tick reported them available
Found == {k \in DOMAIN details : details[k] # << >> /\ details[k][1].available = AvTrue}

\* run_watcher.tick at time now, the adapter yielding `items` and answering
\* the detail lookup of a key with det[key]
\* what a tick that fetched and reconciled leaves in memory
TickMemory(now, items, acc, hp, det, rd) ==
    /\ state' = rd.state
    /\ clock' = now
    /\ tick_now' = now
    /\ prior' = state
    /\ listing' = items
    /\ details' = det
    /\ present_keys' = acc.present_keys
    /\ new_codes' = hp.site_new
    /\ restocked_codes' = hp.site_restocked \o rd.site_restocked
    /\ total_now' = acc.site_current_count
    /\ before' = [tick_now |-> tick_now, dropped |-> Dropped, found |-> Found,
                  restocked |-> Range(restocked_codes)]
    /\ born' = [k \in DOMAIN state' \ DOMAIN state |-> now] @@ born
    /\ streak' = (streak \cup (DOMAIN state' \ DOMAIN state)) \cap present_keys'
    /\ steady' = {k \in (steady \cup (DOMAIN state' \ DOMAIN state)) \cap present_keys' :
                     LastOf(items, k).available # AvFalse}
    /\ price_was' =
         [k \in DOMAIN state' |->
             IF k \in DOMAIN state /\ state'[k].price # state[k].price
             THEN Or(state[k].price, "")
             ELSE Get(price_was, k, NONE)]
    /\ UNCHANGED <<restock_delta, loaded>>

\* a tick that runs to its end in one step: reconcile, persist, notify
TickWith(now, items, acc, hp, det, rd) ==
    /\ phase = "run"
    /\ TickMemory(now, items, acc, hp, det, rd)
    /\ db' = SaveItems(state', db)
    /\ notified' = (new_codes' # << >> \/ restocked_codes' # << >>)
    /\ UNCHANGED <<phase, driver, admin>>

\* an adapter that is only known by what its detail lookup hands to the tick
Given(key, result) == result

\* fetch_details is asked for the code of the key
ForKey(key, result) ==
    IF result = << >> THEN << >> ELSE <<[result[1] EXCEPT !.code = CodeOf(key)]>>

\* what the tick gets from the detail lookup of the adapter in use
Lookup(adapter, key, response) ==
    IF adapter = "sfcc" THEN DetailLookup(key, response)
    ELSE IF adapter = "by_code" THEN ForKey(key, response)
    ELSE Given(key, response)

\* the tick of an adapter that yields one of `listings` and whose detail
\* lookup of a key gets one of the responses R back
TickFrom(listings, R, adapter) ==
    \E dt \in 1..MaxStep, items \in listings :
        /\ clock + dt <= MaxTime
        /\ \E acc \in {Accumulate(items, EmptyAcc)} :
           \E hp \in {HandlePresent(MarkAbsences(state, acc.present_keys, clock + dt),
                                    acc, clock + dt, restock_delta)} :
           \E resp \in [HostKeys(hp.state) \ acc.present_keys -> R] :
           \E det \in {[k \in DOMAIN resp |-> Lookup(adapter, k, resp[k])]} :
           \E rd \in {RecheckDetails(hp.state, acc.present_keys, det, clock + dt,
                                     restock_delta)} :
              /\ TickWith(clock + dt, items, acc, hp, det, rd)
              /\ responses' = resp

Tick(listingItems, detailItems) ==
    TickFrom(Listings(listingItems), DetailResults(detailItems), "given")

\* the listing fetch raises: the tick ends before it touches the record map
TickFetchFails ==
    \E dt \in 1..MaxStep :
        /\ phase = "run"
        /\ clock + dt <= MaxTime
        /\ clock' = clock + dt
        /\ UNCHANGED <<state, db, restock_delta, tick_now, prior, listing, details,
                       present_keys, new_codes, restocked_codes, total_now,
                       notified, before, born, streak, steady, price_was,
                       phase, loaded, responses, driver, admin>>

\* the presence state machine: observations carry the availability signal
TickStatus == Tick(Items({NONE}, Availables), Items({NONE}, Availables))

Next == TickStatus \/ TickFetchFails

Spec == Init /\ [][Next]_vars

\* change tracking: observations carry a price
TickTrack == Tick(Items(Prices, {NONE}), Items(Prices, {NONE}))

NextTrack == TickTrack \/ TickFetchFails

SpecTrack == Init /\ [][NextTrack]_vars

\* two items of the managed host: the listing says nothing about availability,
\* the detail lookup of a key fails or reports it available
PairCodes == {<<"1">>, <<"2">>}

PairItems ==
    [ code : PairCodes, url : {PlainUrl}, title : {NONE}, image : {NONE},
      price : {NONE}, availability : {NONE}, available : {NONE},
      in_stock_allocation : {NoAlloc} ]

TickPair ==
    TickFrom(Listings(PairItems), DetailResults(Items({NONE}, {AvTrue})), "by_code")

NextPair == TickPair \/ TickFetchFails

SpecPair == Init /\ [][NextPair]_vars

\* the SFCC adapter: fetch yields every code once, fetch_details is the
\* Product-Variation request
SfccListings ==
    {l \in Listings(Items({NONE}, {NONE})) :
        \A i, j \in DOMAIN l : l[i].code = l[j].code => i = j}

TickSfcc == TickFrom(SfccListings, SfccResponses, "sfcc")

NextSfcc == TickSfcc \/ TickFetchFails

SpecSfcc == Init /\ [][NextSfcc]_vars

\* names and images: an observation with the given URL, title and image
FieldItem(url, title, image) ==
    [ code |-> <<"1">>, url |-> url, title |-> title, image |-> image,
      price |-> NONE, availability |-> NONE, available |-> NONE,
      in_stock_allocation |-> NoAlloc ]

\* a tile is bare, or has a title and an image, or has a product slug in its URL
FieldListingItems ==
    { FieldItem(PlainUrl, NONE, NONE),
      FieldItem(PlainUrl, "Pin", "a.png"),
      FieldItem(HtmlUrl, NONE, NONE) }

\* a detail has another image, or another title
FieldDetailItems ==
    { FieldItem(PlainUrl, NONE, "b.png"),
      FieldItem(PlainUrl, "Pin 2", NONE) }

TickFields == Tick(FieldListingItems, FieldDetailItems)

NextFields == TickFields \/ TickFetchFails

SpecFields == Init /\ [][NextFields]_vars

\* ---------------------------------------------------------------- startup
LegacyKey == <<"1">>

BootKeys == {LegacyKey, KeyOf(ManagedHost, <<"1">>), OtherKey}

\* the host column a stored row can hold
BootHosts(k) ==
    IF Composite(k) THEN {<< >>, KeyHost(k)} ELSE {<< >>, ManagedHost, OtherHost}

BootRecord(k, host) ==
    [OtherRecord EXCEPT !.host = host,
                        !.name = IF Composite(k) THEN "Composite" ELSE "Legacy"]

\* the items table an earlier run can have left
BootStores ==
    UNION {{[k \in K |-> RowOf(k, BootRecord(k, h[k]))] :
              h \in {g \in [K -> UNION {BootHosts(k) : k \in BootKeys}] :
                        \A k \in K : g[k] \in BootHosts(k)}} :
           K \in SUBSET BootKeys}

InitBoot ==
    /\ db \in BootStores
    /\ state = << >>
    /\ phase = "boot"
    /\ loaded = << >>
    /\ responses = << >>
    /\ restock_delta \in 0..MaxWindow
    /\ clock = 0
    /\ tick_now = 0
    /\ prior = << >>
    /\ listing = << >>
    /\ details = << >>
    /\ present_keys = {}
    /\ new_codes = << >>
    /\ restocked_codes = << >>
    /\ total_now = 0
    /\ notified = FALSE
    /\ before = NoTick
    /\ born = << >>
    /\ streak = {}
    /\ steady = {}
    /\ price_was = << >>
    /\ DriverIdle
    /\ AdminIdle

\* mutant: the configuration is not checked before the store is opened
Startup_Unchecked ==
    /\ phase = "boot"
    /\ notifiers' = BuildNotifiersFromDb(listeners, SiteLabel(ManagedHost))
    /\ \E order \in Orders(DOMAIN db) :
          /\ loaded' = LoadItemsDict(db)
          /\ state' = MigrateKeysToComposite(loaded', order, ManagedHost)
          /\ db' = SaveItems(state', db)
    /\ phase' = "run"
    /\ UNCHANGED <<restock_delta, clock, tick_now, prior, listing, details,
                   present_keys, new_codes, restocked_codes, total_now, notified,
                   before, born, streak, steady, price_was, responses,
                   once, url_override, env, ticks, sleeps, sends, raised, admin>>

\* run_watcher before its loop: the configuration checks, the notifiers, then
\* load, normalize keys, persist any migrations; the table has no row order
\* of its own
Startup ==
    /\ phase = "boot"
    /\ ConfigOk(url_override, env)
    /\ notifiers' = BuildNotifiersFromDb(listeners, SiteLabel(ManagedHost))
    /\ \E order \in Orders(DOMAIN db) :
          /\ loaded' = LoadItemsDict(db)
          /\ state' = MigrateKeysToComposite(loaded', order, ManagedHost)
          /\ db' = SaveItems(state', db)
    /\ phase' = "run"
    /\ UNCHANGED <<restock_delta, clock, tick_now, prior, listing, details,
                   present_keys, new_codes, restocked_codes, total_now, notified,
                   before, born, streak, steady, price_was, responses,
                   once, url_override, env, ticks, sleeps, sends, raised, admin>>

\* the ticks after startup: the listing says nothing about availability and
\* every detail lookup fails
TickBoot == Tick(Items({NONE}, {NONE}), {})

NextBoot == Startup \/ TickBoot \/ TickFetchFails

SpecBoot == InitBoot /\ [][NextBoot]_vars

\* ---------------------------------------------------------------- the driver
\* run_watcher step by step: configuration checks, startup, then the loop
\* whose tick fetches and reconciles, persists, notifies; phase is where the
\* program is: "boot", "exit" (SystemExit before the loop), "run" (about to
\* call tick), "persist", "notify", "ticked" (tick returned), "caught" (tick
\* raised and the loop caught it), "returned" (the loop ended)
EnvGrid ==
    [TARGET_URL |-> << >>, components |-> GridComponents, STATE_DB |-> <<"state.db">>]

EnvNone ==
    [TARGET_URL |-> <<" ">>, components |-> GridComponents \ {"TARGET_LOCALE"},
     STATE_DB |-> <<"state.db">>]

EnvMany ==
    [TARGET_URL |-> <<"a", ",", "b">>, components |-> GridComponents,
     STATE_DB |-> <<"state.db">>]

EnvNoDb == [TARGET_URL |-> <<"a">>, components |-> {}, STATE_DB |-> <<" ">>]

\* the url_override argument and the environment of a run
LoopConfigs ==
    { <<<< >>, EnvDirect>>, <<<< >>, EnvGrid>>, <<<<<<"a">>>>, EnvNone>>,
      <<<< >>, EnvNone>>, <<<<<< >>>>, EnvNone>>, <<<< >>, EnvMany>>,
      <<<<<<"a", "\n", "b">>>>, EnvDirect>>, <<<< >>, EnvNoDb>> }

LoopListener(region, kind, enabled, user_id) ==
    [ region |-> region, kind |-> kind, enabled |-> enabled, name |-> "hook",
      config |-> [webhook_url |-> IF kind = "discord" THEN "https://hook" ELSE NONE,
                  smtp_host |-> IF kind = "email" THEN "smtp" ELSE NONE,
                  smtp_user |-> IF kind = "email" THEN "user" ELSE NONE,
                  smtp_pass |-> IF kind = "email" THEN "pass" ELSE NONE,
                  to |-> IF kind = "email" THEN "to@mail" ELSE NONE],
      user_id |-> user_id ]

\* the listeners table the admin pages can have left
LoopListeners ==
    { << >>,
      AddListener(<< >>, 1, LoopListener("EU", "discord", TRUE, 101)),
      AddListener(AddListener(<< >>, 1, LoopListener("us", "discord", TRUE, 101)),
                  2, LoopListener("ALL", "email", TRUE, 202)),
      AddListener(AddListener(AddListener(<< >>,
                  1, LoopListener("US", "email", TRUE, 101)),
                  2, LoopListener("US", "discord", FALSE, 101)),
                  3, LoopListener("ALL", "discord", TRUE, 202)) }

\* the items table an earlier run can have left
LoopStores == {<< >>, [k \in {LegacyKey} |-> RowOf(k, BootRecord(k, << >>))]}

InitLoop ==
    /\ db \in LoopStores
    /\ state = << >>
    /\ phase = "boot"
    /\ loaded = << >>
    /\ responses = << >>
    /\ restock_delta = 0
    /\ clock = 0
    /\ tick_now = 0
    /\ prior = << >>
    /\ listing = << >>
    /\ details = << >>
    /\ present_keys = {}
    /\ new_codes = << >>
    /\ restocked_codes = << >>
    /\ total_now = 0
    /\ notified = FALSE
    /\ before = NoTick
    /\ born = << >>
    /\ streak = {}
    /\ steady = {}
    /\ price_was = << >>
    /\ once \in BOOLEAN
    /\ \E c \in LoopConfigs : url_override = c[1] /\ env = c[2]
    /\ notifiers = << >>
    /\ ticks = 0
    /\ sleeps = 0
    /\ sends = << >>
    /\ raised = NONE
    /\ listeners \in LoopListeners
    /\ listener_seq = Cardinality(DOMAIN listeners)
    /\ users = << >>
    /\ user_seq = 0
    /\ call = NoCall
    /\ returned = << >>
    /\ added = << >>
    /\ deleted = {}

\* a configuration check fails: SystemExit before anything else is done
StartupExits ==
    /\ phase = "boot"
    /\ ~ConfigOk(url_override, env)
    /\ phase' = "exit"
    /\ UNCHANGED <<state, db, restock_delta, clock, tick_now, prior, listing,
                   details, present_keys, new_codes, restocked_codes, total_now,
                   notified, before, born, streak, steady, price_was, loaded,
                   responses, driver, admin>>

\* both adapters yield every code once
LoopListings == SfccListings

\* the loop calls tick() on an adapter that yields one of `listings`; the
\* fetch and the reconciliation run to their end, every detail lookup failing
TickReconcilesFrom(listings) ==
    \E dt \in 1..MaxStep, items \in listings :
        /\ phase = "run"
        /\ clock + dt <= MaxTime
        /\ \E acc \in {Accumulate(items, EmptyAcc)} :
           \E hp \in {HandlePresent(MarkAbsences(state, acc.present_keys, clock + dt),
                                    acc, clock + dt, restock_delta)} :
           \E det \in {[k \in HostKeys(hp.state) \ acc.present_keys |-> << >>]} :
           \E rd \in {RecheckDetails(hp.state, acc.present_keys, det, clock + dt,
                                     restock_delta)} :
              /\ TickMemory(clock + dt, items, acc, hp, det, rd)
              /\ responses' = det
        /\ phase' = "persist"
        /\ ticks' = ticks + 1
        /\ sends' = << >>
        /\ raised' = NONE
        /\ notified' = FALSE
        /\ UNCHANGED <<db, once, url_override, env, notifiers, sleeps, admin>>

TickReconciles == TickReconcilesFrom(LoopListings)

\* mutant: the absences of the items seen so far are swept before the raise
FetchRaises_Swept(now, items) ==
    /\ state' = MarkAbsences(state, Accumulate(items, EmptyAcc).present_keys, now)
    /\ db' = db
    /\ clock' = now
    /\ listing' = items

\* the listing fetch raises after the adapter yielded `items`: only the
\* accumulators local to the tick were written
FetchRaises(now, items) ==
    /\ state' = state
    /\ db' = db
    /\ clock' = now
    /\ listing' = items

\* the loop calls tick(); the fetch raises on its first or on a later page
TickFetchRaises ==
    \E dt \in 1..MaxStep, items \in LoopListings :
        /\ phase = "run"
        /\ clock + dt <= MaxTime
        /\ FetchRaises(clock + dt, items)
        /\ phase' = "caught"
        /\ ticks' = ticks + 1
        /\ sends' = << >>
        /\ raised' = "fetch"
        /\ notified' = FALSE
        /\ UNCHANGED <<restock_delta, tick_now, prior, details, present_keys,
                       new_codes, restocked_codes, total_now, before, born,
                       streak, steady, price_was, loaded, responses,
                       once, url_override, env, notifiers, sleeps, admin>>

\* mutant: a changed price is an event too
Events_OrChanged ==
    \/ new_codes # << >> \/ restocked_codes # << >>
    \/ \E k \in DOMAIN state : state[k].price_changed

Events == new_codes # << >> \/ restocked_codes # << >>

\* mutant: the notifiers are sent to before the map is written
TickPersists_Late ==
    /\ phase = "persist"
    /\ db' = db
    /\ notified' = Events
    /\ phase' = IF Events /\ notifiers # << >> THEN "notify" ELSE "ticked"
    /\ UNCHANGED <<state, restock_delta, clock, tick_now, prior, listing, details,
                   present_keys, new_codes, restocked_codes, total_now, before,
                   born, streak, steady, price_was, loaded, responses,
                   driver, admin>>

\* save_items wrote the whole map
TickPersists ==
    /\ phase = "persist"
    /\ db' = SaveItems(state, db)
    /\ notified' = Events
    /\ phase' = IF Events /\ notifiers # << >> THEN "notify" ELSE "ticked"
    /\ UNCHANGED <<state, restock_delta, clock, tick_now, prior, listing, details,
                   present_keys, new_codes, restocked_codes, total_now, before,
                   born, streak, steady, price_was, loaded, responses,
                   driver, admin>>

\* mutant: the failed write is swallowed and the tick goes on to notify
PersistRaises_Swallowed ==
    /\ phase = "persist"
    /\ raised' = "persist"
    /\ notified' = Events
    /\ phase' = IF Events /\ notifiers # << >> THEN "notify" ELSE "ticked"
    /\ UNCHANGED <<state, db, restock_delta, clock, tick_now, prior, listing,
                   details, present_keys, new_codes, restocked_codes, total_now,
                   before, born, streak, steady, price_was, loaded,
                   responses, once, url_override, env, notifiers, ticks, sleeps,
                   sends, admin>>

\* save_items raises: the transaction is not committed, the exception leaves
\* tick()
PersistRaises ==
    /\ phase = "persist"
    /\ raised' = "persist"
    /\ phase' = "caught"
    /\ UNCHANGED <<state, db, restock_delta, clock, tick_now, prior, listing,
                   details, present_keys, new_codes, restocked_codes, total_now,
                   notified, before, born, streak, steady, price_was, loaded,
                   responses, once, url_override, env, notifiers, ticks, sleeps,
                   sends, admin>>

\* subject "X new & Y restocked (now N total)", bodies listing the keys
RenderChangeDigest(new, restocked, total_count) ==
    [ subject |-> <<Len(new), Len(restocked), total_count>>,
      html_body |-> <<new, restocked>>,
      text_body |-> <<new, restocked>> ]

\* mutant: an exception of send leaves the notifier loop and the tick
NotifierSends_StopAtRaise ==
    /\ phase = "notify"
    /\ \E fails \in BOOLEAN :
          /\ sends' = Append(sends,
                 [ notifier |-> notifiers[Len(sends) + 1],
                   message |-> RenderChangeDigest(new_codes, restocked_codes, total_now),
                   raised |-> fails ])
          /\ phase' = IF fails THEN "caught"
                      ELSE IF Len(sends') = Len(notifiers) THEN "ticked" ELSE "notify"
    /\ UNCHANGED <<state, db, restock_delta, clock, tick_now, prior, listing,
                   details, present_keys, new_codes, restocked_codes, total_now,
                   notified, before, born, streak, steady, price_was, loaded,
                   responses, once, url_override, env, notifiers, ticks, sleeps,
                   raised, admin>>

\* the next notifier of the list is sent the digest; it returns or raises,
\* and an exception is caught inside the notifier loop
NotifierSends ==
    /\ phase = "notify"
    /\ \E fails \in BOOLEAN :
          sends' = Append(sends,
                 [ notifier |-> notifiers[Len(sends) + 1],
                   message |-> RenderChangeDigest(new_codes, restocked_codes, total_now),
                   raised |-> fails ])
    /\ phase' = IF Len(sends') = Len(notifiers) THEN "ticked" ELSE "notify"
    /\ UNCHANGED <<state, db, restock_delta, clock, tick_now, prior, listing,
                   details, present_keys, new_codes, restocked_codes, total_now,
                   notified, before, born, streak, steady, price_was, loaded,
                   responses, once, url_override, env, notifiers, ticks, sleeps,
                   raised, admin>>

\* mutant: an exception of tick() ends the loop
LoopEnds_Propagates ==
    /\ phase \in {"ticked", "caught"}
    /\ IF once \/ phase = "caught" THEN phase' = "returned" /\ sleeps' = sleeps
       ELSE phase' = "run" /\ sleeps' = sleeps + 1
    /\ UNCHANGED <<state, db, restock_delta, clock, tick_now, prior, listing,
                   details, present_keys, new_codes, restocked_codes, total_now,
                   notified, before, born, streak, steady, price_was, loaded,
                   responses, once, url_override, env, notifiers, ticks, sends,
                   raised, admin>>

\* mutant: the loop sleeps before it looks at once
LoopEnds_SleepsFirst ==
    /\ phase \in {"ticked", "caught"}
    /\ sleeps' = sleeps + 1
    /\ phase' = IF once THEN "returned" ELSE "run"
    /\ UNCHANGED <<state, db, restock_delta, clock, tick_now, prior, listing,
                   details, present_keys, new_codes, restocked_codes, total_now,
                   notified, before, born, streak, steady, price_was, loaded,
                   responses, once, url_override, env, notifiers, ticks, sends,
                   raised, admin>>

\* tick() returned or its exception was caught: break when once, else sleep
\* for the interval and go round
LoopEnds ==
    /\ phase \in {"ticked", "caught"}
    /\ IF once THEN phase' = "returned" /\ sleeps' = sleeps
       ELSE phase' = "run" /\ sleeps' = sleeps + 1
    /\ UNCHANGED <<state, db, restock_delta, clock, tick_now, prior, listing,
                   details, present_keys, new_codes, restocked_codes, total_now,
                   notified, before, born, streak, steady, price_was, loaded,
                   responses, once, url_override, env, notifiers, ticks, sends,
                   raised, admin>>

NextLoop ==
    \/ StartupExits
    \/ Startup
    \/ TickReconciles
    \/ TickFetchRaises
    \/ TickPersists
    \/ PersistRaises
    \/ NotifierSends
    \/ LoopEnds

SpecLoop == InitLoop /\ [][NextLoop]_vars

\* the process keeps running: a step that can be taken is taken
SpecLoopFair == SpecLoop /\ WF_vars(NextLoop)

\* ---------------------------------------------------------------- digests
\* the watcher on a listing with prices and stock messages
RunItems ==
    [ code : Codes, url : {PlainUrl}, title : {NONE}, image : {NONE},
      price : Prices, availability : {NONE, "Low Stock"}, available : {NONE},
      in_stock_allocation : {NoAlloc} ]

RunListings ==
    {l \in Listings(RunItems) : \A i, j \in DOMAIN l : l[i].code = l[j].code => i = j}

InitRun ==
    /\ db = << >>
    /\ state = << >>
    /\ phase = "boot"
    /\ loaded = << >>
    /\ TickIdle
    /\ DriverIdle
    /\ listeners \in {<< >>,
                      AddListener(<< >>, 1, LoopListener("ALL", "discord", TRUE, 101))}
    /\ listener_seq = 0
    /\ users = << >>
    /\ user_seq = 0
    /\ call = NoCall
    /\ returned = << >>
    /\ added = << >>
    /\ deleted = {}

TickReconcilesPriced == TickReconcilesFrom(RunListings)

NextDigest ==
    \/ Startup
    \/ TickReconcilesPriced
    \/ TickPersists
    \/ PersistRaises
    \/ NotifierSends
    \/ LoopEnds

SpecDigest == InitRun /\ [][NextDigest]_vars

\* ---------------------------------------------------------------- restarts
\* the process is killed inside or between ticks: the record map and the
\* notifiers of the process are gone, the store is as the last commit left
\* it; ticks and sleeps go on counting over the restart
Crash ==
    /\ phase \in {"run", "persist", "notify", "ticked", "caught"}
    /\ phase' = "boot"
    /\ state' = << >>
    /\ notifiers' = << >>
    /\ UNCHANGED <<db, restock_delta, clock, tick_now, prior, listing, details,
                   present_keys, new_codes, restocked_codes, total_now, notified,
                   before, born, streak, steady, price_was, loaded, responses,
                   once, url_override, env, ticks, sleeps, sends, raised, admin>>

NextRun ==
    \/ Startup
    \/ TickReconciles
    \/ TickPersists
    \/ PersistRaises
    \/ NotifierSends
    \/ LoopEnds
    \/ Crash

SpecRun == InitRun /\ [][NextRun]_vars

\* the state clear command while the watcher runs: the store file is removed
StateClear ==
    /\ phase \in {"run", "persist", "notify", "ticked", "caught"}
    /\ db # << >>
    /\ db' = << >>
    /\ UNCHANGED <<state, restock_delta, clock, tick_now, prior, listing, details,
                   present_keys, new_codes, restocked_codes, total_now, notified,
                   before, born, streak, steady, price_was, phase, loaded,
                   responses, driver, admin>>

NextClear ==
    \/ Startup
    \/ TickReconciles
    \/ TickPersists
    \/ PersistRaises
    \/ NotifierSends
    \/ LoopEnds
    \/ StateClear

SpecClear == InitRun /\ [][NextClear]_vars

\* ---------------------------------------------------------------- admin pages
\* the listener calls of the admin pages, each issued for the signed-in user
Users == {101, 202}

QuietWatcher ==
    UNCHANGED <<state, db, restock_delta, clock, tick_now, prior, listing, details,
                present_keys, new_codes, restocked_codes, total_now, notified,
                before, born, streak, steady, price_was, phase, loaded, responses,
                driver>>

AddListenerCall ==
    \E u \in Users, enabled \in BOOLEAN :
        /\ listener_seq < MaxListeners
        /\ listener_seq' = listener_seq + 1
        /\ listeners' = AddListener(listeners, listener_seq',
                                    LoopListener("us", "discord", enabled, u))
        /\ added' = Put(added, listener_seq', u)
        /\ call' = [op |-> "add", user_id |-> <<u>>]
        /\ returned' = <<listener_seq'>>
        /\ QuietWatcher
        /\ UNCHANGED <<users, user_seq, deleted>>

SetListenerEnabledCall ==
    \E u \in Users, id \in 1..listener_seq, enabled \in BOOLEAN :
        /\ listeners' = SetListenerEnabled(listeners, id, enabled, <<u>>)
        /\ call' = [op |-> "toggle", user_id |-> <<u>>]
        /\ returned' = << >>
        /\ QuietWatcher
        /\ UNCHANGED <<listener_seq, users, user_seq, added, deleted>>

DeleteListenerCall ==
    \E u \in Users, id \in 1..listener_seq :
        /\ listeners' = DeleteListener(listeners, id, <<u>>)
        /\ deleted' = deleted \cup {<<id, u>>}
        /\ call' = [op |-> "delete", user_id |-> <<u>>]
        /\ returned' = << >>
        /\ QuietWatcher
        /\ UNCHANGED <<listener_seq, users, user_seq, added>>

NextListeners == AddListenerCall \/ SetListenerEnabledCall \/ DeleteListenerCall

SpecListeners == Init /\ [][NextListeners]_vars

\* the sign-in route: upsert_user_google with what Google reports, and
\* get_user_by_id for the session's user
Subs == {"sub-1", "sub-2"}

UpsertUserGoogleCall ==
    \E sub \in Subs, email \in {"jane@mail", "jane2@mail"}, name \in {"Jane", "Jane Two"}, picture \in {NONE, "pic.jpg"} :
        \E done \in {UpsertUserGoogle(users, user_seq, sub, email, name, picture)} :
            /\ users' = done.users
            /\ user_seq' = done.seq
            /\ returned' = done.user
            /\ call' = [op |-> "upsert", sub |-> sub, email |-> email,
                        name |-> name, picture |-> picture]
            /\ QuietWatcher
            /\ UNCHANGED <<listeners, listener_seq, added, deleted>>

GetUserByIdCall ==
    \E user_id \in 1..(user_seq + 1) :
        /\ returned' = GetUserById(users, user_id)
        /\ call' = [op |-> "get", user_id |-> user_id]
        /\ QuietWatcher
        /\ UNCHANGED <<listeners, listener_seq, users, user_seq, added, deleted>>

NextUsers == UpsertUserGoogleCall \/ GetUserByIdCall

SpecUsers == Init /\ [][NextUsers]_vars

\* ---------------------------------------------------------------- watch command
\* nothing has run yet: empty map, empty store
WatcherIdle ==
    /\ state = << >>
    /\ db = << >>
    /\ loaded = << >>
    /\ TickIdle


\* the values of --url: not given, or a string of up to MaxRaw pieces
RawUrls ==
    {<< >>} \cup
    {<<r>> : r \in UNION {[1..n -> {" ", ",", "\n", "a", "b"}] : n \in 0..MaxRaw}}

\* phase is "cli" in the watch command, then "usage_error" (BadParameter) or
\* "boot" (run_watcher was called)
InitWatch ==
    /\ WatcherIdle
    /\ DriverIdle
    /\ listeners = << >>
    /\ listener_seq = 0
    /\ users = << >>
    /\ user_seq = 0
    /\ added = << >>
    /\ deleted = {}
    /\ phase = "cli"
    /\ returned = << >>
    /\ \E raw \in RawUrls : call = [op |-> "watch", url |-> raw]

QuietTables == UNCHANGED <<listeners, listener_seq, users, user_seq, added, deleted>>

QuietTick ==
    UNCHANGED <<state, db, restock_delta, clock, tick_now, prior, listing, details,
                present_keys, new_codes, restocked_codes, total_now, notified,
                before, born, streak, steady, price_was, loaded, responses>>

\* normalize_single_url raised: the command ends with a usage error
WatchRejects ==
    /\ phase = "cli"
    /\ NormalizeSingleUrl(call.url).raised
    /\ returned' = NormalizeSingleUrl(call.url)
    /\ phase' = "usage_error"
    /\ UNCHANGED <<call, driver>>
    /\ QuietTick
    /\ QuietTables

\* run_watcher is called with url_override = single_url or None
WatchRuns ==
    /\ phase = "cli"
    /\ ~NormalizeSingleUrl(call.url).raised
    /\ returned' = NormalizeSingleUrl(call.url)
    /\ url_override' = IF returned'.url # << >> THEN <<returned'.url>> ELSE << >>
    /\ phase' = "boot"
    /\ UNCHANGED <<call, once, env, notifiers, ticks, sleeps, sends, raised>>
    /\ QuietTick
    /\ QuietTables

NextWatch == WatchRejects \/ WatchRuns

SpecWatch == InitWatch /\ [][NextWatch]_vars

\* ---------------------------------------------------------------- item store
\* save_items then load_items_dict on a fresh store, for record maps as the
\* watcher or the migrate command (which saves the records of a JSON file as
\* they are) can hand them over; phase is "run", then "saved", then "loaded"
StoreRecords ==
    {[OtherRecord EXCEPT !.host = ManagedHost, !.name = f.name, !.image = f.image,
                         !.price = f.price,
                         !.availability_message = f.availability_message,
                         !.available = f.available,
                         !.in_stock_allocation = f.in_stock_allocation] :
        f \in [ name : {NONE, "Name"}, image : {NONE, "img"},
                price : {NONE, "", "$10"},
                availability_message : {NONE, "", "Low Stock"},
                available : Availables,
                in_stock_allocation : {NoAlloc, <<0>>, <<12>>} ]}

StoreMaps ==
    {<< >>}
    \cup {[k \in {KeyOf(ManagedHost, <<"1">>)} |-> r] : r \in StoreRecords}
    \cup {[k \in {KeyOf(ManagedHost, <<"1">>), OtherKey} |->
              IF k = OtherKey THEN OtherRecord ELSE r] : r \in StoreRecords}

InitStore ==
    /\ state \in StoreMaps
    /\ db = << >>
    /\ phase = "run"
    /\ loaded = << >>
    /\ responses = << >>
    /\ restock_delta = 0
    /\ clock = 0
    /\ tick_now = 0
    /\ prior = << >>
    /\ listing = << >>
    /\ details = << >>
    /\ present_keys = {}
    /\ new_codes = << >>
    /\ restocked_codes = << >>
    /\ total_now = 0
    /\ notified = FALSE
    /\ before = NoTick
    /\ born = << >>
    /\ streak = {}
    /\ steady = {}
    /\ price_was = << >>
    /\ DriverIdle
    /\ AdminIdle

StoreSaves ==
    /\ phase = "run"
    /\ db' = SaveItems(state, db)
    /\ phase' = "saved"
    /\ UNCHANGED <<state, restock_delta, clock, tick_now, prior, listing, details,
                   present_keys, new_codes, restocked_codes, total_now, notified,
                   before, born, streak, steady, price_was, loaded, responses,
                   driver, admin>>

StoreLoads ==
    /\ phase = "saved"
    /\ loaded' = LoadItemsDict(db)
    /\ phase' = "loaded"
    /\ UNCHANGED <<state, db, restock_delta, clock, tick_now, prior, listing,
                   details, present_keys, new_codes, restocked_codes, total_now,
                   notified, before, born, streak, steady, price_was, responses,
                   driver, admin>>

NextStore == StoreSaves \/ StoreLoads

SpecStore == InitStore /\ [][NextStore]_vars

\* ---------------------------------------------------------------- state file
\* a record of the JSON state file; a field the object lacks is << >>
JsonRecord(url, first_seen, status, status_since, last_seen, name, host) ==
    [ url |-> url, first_seen |-> first_seen, status |-> status,
      status_since |-> status_since, last_seen |-> last_seen,
      name |-> name, host |-> host ]

\* a URL with "www." and a query, and the same URL canonicalized
WwwUrl == "https://www.store.com/mickey-pin-1.html?x=y"

Canonicalize(url) == IF url = WwwUrl THEN HtmlUrl ELSE url

UrlKey == <<WwwUrl>>

\* the keys of a state file in the order of sorted(): "1" < "2" < "https:.." < "store.com:1"
JsonKeys == << <<"1">>, <<"2">>, UrlKey, KeyOf(ManagedHost, <<"1">>) >>

\* json.dumps(state, sort_keys=True): the members in the order of their keys
JsonDumps(st) ==
    LET member(i) == <<JsonKeys[i], st[JsonKeys[i]]>>
        F[i \in 0..Len(JsonKeys)] ==
            IF i = 0 THEN << >>
            ELSE IF JsonKeys[i] \in DOMAIN st THEN Append(F[i - 1], member(i))
                 ELSE F[i - 1]
    IN F[Len(JsonKeys)]

\* the code _migrate_from_dict gives a key: the key if it is digits, else
\* the product code of the canonicalized key (a composite key has no
\* "/<name>.html" in it, so it has none)
CodeOfJsonKey(k) ==
    IF IsDigit(k) THEN k
    ELSE IF Composite(k) THEN << >>
    ELSE ExtractProductCode(Canonicalize(k[1]))

UrlOfJsonKey(k, v) ==
    IF IsDigit(k) THEN v.url
    ELSE IF Composite(k) THEN "https:///" ELSE Canonicalize(k[1])

\* the entry _migrate_from_dict writes for one member
MigrateEntry(k, v, now) ==
    LET url == IF UrlOfJsonKey(k, v) # "" THEN UrlOfJsonKey(k, v) ELSE v.url
    IN IF v.status # << >> /\ v.status_since # << >>
       THEN LET first_seen == IF v.first_seen # << >> THEN v.first_seen[1] ELSE now
            IN [ url |-> url,
                 first_seen |-> first_seen,
                 status |-> IF v.status[1] # 0 THEN 1 ELSE 0,
                 status_since |-> v.status_since[1],
                 name |-> IF Truthy(v.name) THEN v.name ELSE NONE ]
       ELSE LET first_seen == IF v.first_seen # << >> THEN v.first_seen[1]
                              ELSE IF v.last_seen # << >> THEN v.last_seen[1] ELSE now
            IN [ url |-> url,
                 first_seen |-> first_seen,
                 status |-> 1,
                 status_since |-> IF v.last_seen # << >> THEN v.last_seen[1]
                                  ELSE first_seen,
                 name |-> NONE ]

\* state._migrate_from_dict over the members of the file, in their order
MigrateFromDict(raw, now) ==
    LET F[i \in 0..Len(raw)] ==
            IF i = 0 THEN << >>
            ELSE LET k == raw[i][1]
                     v == raw[i][2]
                 IN IF CodeOfJsonKey(k) = << >> THEN F[i - 1]
                    ELSE Put(F[i - 1], CodeOfJsonKey(k), MigrateEntry(k, v, now))
    IN F[Len(raw)]

\* state.load_state on a file that holds a JSON object
LoadState(file, now) == MigrateFromDict(file, now)

\* records of the unified schema, as make_present_record and the status
\* machine write them
SchemaRecords ==
    {JsonRecord(HtmlUrl, <<1>>, <<f.status>>, <<f.status_since>>, << >>, f.name, f.host) :
        f \in [ status : {ABSENT, PRESENT}, status_since : {1, 2},
                name : {NONE, "Name"}, host : {<< >>, ManagedHost} ]}

\* records of the earlier first_seen / last_seen files
SeenRecords ==
    {JsonRecord(HtmlUrl, <<1>>, << >>, << >>, last_seen, NONE, << >>) :
        last_seen \in {<< >>, <<2>>}}

JsonMaps ==
    {<< >>}
    \cup {[k \in {key} |-> r] :
             key \in Range(JsonKeys), r \in SchemaRecords \cup SeenRecords}
    \cup {[k \in {<<"2">>, key} |->
              IF k = key THEN r
              ELSE JsonRecord(HtmlUrl, <<1>>, <<PRESENT>>, <<1>>, << >>, "Two", << >>)] :
             key \in Range(JsonKeys) \ {<<"2">>}, r \in SchemaRecords}

\* state is the map given to save_state, db the members of the state file,
\* loaded the map load_state returns
InitJson ==
    /\ state \in JsonMaps
    /\ db = << >>
    /\ loaded = << >>
    /\ responses = << >>
    /\ restock_delta = 0
    /\ clock = 3
    /\ tick_now = 0
    /\ prior = << >>
    /\ listing = << >>
    /\ details = << >>
    /\ present_keys = {}
    /\ new_codes = << >>
    /\ restocked_codes = << >>
    /\ total_now = 0
    /\ notified = FALSE
    /\ before = NoTick
    /\ born = << >>
    /\ streak = {}
    /\ steady = {}
    /\ price_was = << >>
    /\ phase = "run"
    /\ DriverIdle
    /\ AdminIdle

JsonSaves ==
    /\ phase = "run"
    /\ db' = JsonDumps(state)
    /\ phase' = "saved"
    /\ UNCHANGED <<state, restock_delta, clock, tick_now, prior, listing, details,
                   present_keys, new_codes, restocked_codes, total_now, notified,
                   before, born, streak, steady, price_was, loaded, responses,
                   driver, admin>>

JsonLoads ==
    /\ phase = "saved"
    /\ loaded' = LoadState(db, clock)
    /\ phase' = "loaded"
    /\ UNCHANGED <<state, db, restock_delta, clock, tick_now, prior, listing,
                   details, present_keys, new_codes, restocked_codes, total_now,
                   notified, before, born, streak, steady, price_was, responses,
                   driver, admin>>

NextJson == JsonSaves \/ JsonLoads

SpecJson == InitJson /\ [][NextJson]_vars

\* ---------------------------------------------------------------- change tracking
Messages == {NONE, "", "In Stock", "Low Stock"}

\* the records _apply_change_tracking can be given
TrackedRecords ==
    {[OtherRecord EXCEPT !.availability_message = f.availability_message,
                         !.prev_availability_message = f.prev_availability_message,
                         !.availability_changed = f.availability_changed,
                         !.available = f.available,
                         !.prev_available = f.prev_available] :
        f \in [ availability_message : Messages \ {""},
                prev_availability_message : {NONE, "", "Low Stock"},
                availability_changed : BOOLEAN,
                available : Availables,
                prev_available : Availables ]}

\* state holds the record under OtherKey, prior the record before the call
InitChange ==
    /\ \E info \in TrackedRecords : state = [k \in {OtherKey} |-> info]
    /\ prior = << >>
    /\ db = << >>
    /\ loaded = << >>
    /\ responses = << >>
    /\ restock_delta = 0
    /\ clock = 0
    /\ tick_now = 0
    /\ listing = << >>
    /\ details = << >>
    /\ present_keys = {}
    /\ new_codes = << >>
    /\ restocked_codes = << >>
    /\ total_now = 0
    /\ notified = FALSE
    /\ before = NoTick
    /\ born = << >>
    /\ streak = {}
    /\ steady = {}
    /\ price_was = << >>
    /\ phase = "run"
    /\ DriverIdle
    /\ AdminIdle

\* one call of _apply_change_tracking on the record
ApplyChangeTrackingCall ==
    /\ phase = "run"
    /\ \E price \in {NONE, "$10"}, availability_message \in Messages,
          available \in Availables :
          /\ call' = [op |-> "_apply_change_tracking", price |-> price,
                      availability_message |-> availability_message,
                      available |-> available]
          /\ state' = [k \in DOMAIN state |->
                          ApplyChangeTracking(state[k], price, availability_message,
                                              available)]
    /\ prior' = state
    /\ phase' = "tracked"
    /\ UNCHANGED <<db, restock_delta, clock, tick_now, listing, details,
                   present_keys, new_codes, restocked_codes, total_now, notified,
                   before, born, streak, steady, price_was, loaded, responses,
                   driver, listeners, listener_seq, users, user_seq, returned,
                   added, deleted>>

\* the next call works on the record the last one left
NextCall ==
    /\ phase = "tracked"
    /\ phase' = "run"
    /\ UNCHANGED <<state, prior, db, restock_delta, clock, tick_now, listing,
                   details, present_keys, new_codes, restocked_codes, total_now,
                   notified, before, born, streak, steady, price_was, loaded,
                   responses, driver, admin>>

NextChange == ApplyChangeTrackingCall \/ NextCall

SpecChange == InitChange /\ [][NextChange]_vars

\* ---------------------------------------------------------------- discord
\* DiscordWebhookNotifier.send; a text is the sequence of the lengths of its
\* lines, a posted message the sequence of the positions of the lines it holds
limit == 1900

LineLengths == {0, 1, 949, 950, 1901}

Bodies == UNION {[1..n -> LineLengths] : n \in 0..MaxLines}

\* str.strip() on the text: the blank lines at both ends go
RECURSIVE StripLines(_)
StripLines(lines) ==
    IF lines = << >> THEN << >>
    ELSE IF Head(lines) = 0 THEN StripLines(Tail(lines))
    ELSE IF lines[Len(lines)] = 0 THEN StripLines(SubSeq(lines, 1, Len(lines) - 1))
    ELSE lines

\* len() of the lines at the positions `at`, joined by newlines
RECURSIVE JoinedLen(_, _)
JoinedLen(lines, at) ==
    IF at = << >> THEN 0
    ELSE IF Len(at) = 1 THEN lines[at[1]]
    ELSE lines[Head(at)] + 1 + JoinedLen(lines, Tail(at))

\* the loop over the lines: posts made so far, buf and cur
ChunkByLine(lines) ==
    LET F[i \in 0..Len(lines)] ==
            IF i = 0 THEN [posts |-> << >>, buf |-> << >>, cur |-> 0]
            ELSE LET add_len == lines[i] + 1
                     flush == F[i - 1].cur + add_len > limit /\ F[i - 1].buf # << >>
                 IN [ posts |-> IF flush THEN Append(F[i - 1].posts, F[i - 1].buf)
                                ELSE F[i - 1].posts,
                      buf |-> IF flush THEN <<i>> ELSE Append(F[i - 1].buf, i),
                      cur |-> IF flush THEN add_len ELSE F[i - 1].cur + add_len ]
        end == F[Len(lines)]
    IN IF end.buf # << >> THEN Append(end.posts, end.buf) ELSE end.posts

\* the messages send posts, in order
DiscordSend(webhook_url, title, text_body) ==
    IF ~Truthy(webhook_url) THEN << >>
    ELSE LET content == StripLines(IF text_body # << >> THEN text_body ELSE title)
             all == [i \in 1..Len(content) |-> i]
         IN IF JoinedLen(content, all) <= limit THEN <<all>>
            ELSE ChunkByLine(content)

\* sends is the list of the messages posted to the webhook
InitDiscord ==
    /\ state = << >>
    /\ db = << >>
    /\ loaded = << >>
    /\ TickIdle
    /\ DriverIdle
    /\ listeners = << >>
    /\ listener_seq = 0
    /\ users = << >>
    /\ user_seq = 0
    /\ returned = << >>
    /\ added = << >>
    /\ deleted = {}
    /\ phase = "run"
    /\ \E webhook_url \in {NONE, "https://hook"}, text_body \in Bodies :
          call = [op |-> "send", webhook_url |-> webhook_url, title |-> <<1>>,
                  text_body |-> text_body]

DiscordSends ==
    /\ phase = "run"
    /\ sends' = DiscordSend(call.webhook_url, call.title, call.text_body)
    /\ phase' = "sent"
    /\ UNCHANGED <<state, db, restock_delta, clock, tick_now, prior, listing,
                   details, present_keys, new_codes, restocked_codes, total_now,
                   notified, before, born, streak, steady, price_was, loaded,
                   responses, once, url_override, env, notifiers, ticks, sleeps,
                   raised, admin>>

NextDiscord == DiscordSends

SpecDiscord == InitDiscord /\ [][NextDiscord]_vars

\* ---------------------------------------------------------------- properties
\* what the latest tick kept for a key of its present set
Kept(k) == LastOf(listing, k)

\* the price the latest tick fetched for a key it processed: in the listing
\* the last non-empty price among the key's observations, else the price of
\* the detail lookup
ListedPrice(k) ==
    LET idx == {i \in DOMAIN listing :
                   KeyOf(ManagedHost, listing[i].code) = k /\ Truthy(listing[i].price)}
    IN IF idx = {} THEN NONE
       ELSE listing[CHOOSE i \in idx : \A j \in idx : j <= i].price

Rechecked == {k \in DOMAIN details : details[k] # << >>}
Processed == (present_keys \cap DOMAIN prior) \cup (Rechecked \cap DOMAIN prior)
FetchedPrice(k) == IF k \in present_keys THEN ListedPrice(k) ELSE details[k][1].price

\* C1: a record that is ABSENT since t0 and is listed again, not explicitly
\* unavailable, at a time t with t - t0 >= restock window (equality included)
\* is in restocked_codes exactly once, PRESENT, with status_since = t.
C1_RestockedAfterWindow ==
    \A k \in present_keys \cap DOMAIN prior :
        ( /\ prior[k].status = ABSENT
          /\ Kept(k).available # AvFalse
          /\ tick_now - prior[k].status_since >= restock_delta )
        => /\ Count(restocked_codes, k) = 1
           /\ state[k].status = PRESENT
           /\ state[k].status_since = tick_now

C1_Witness ==
    \E k \in present_keys \cap DOMAIN prior :
        /\ prior[k].status = ABSENT
        /\ Kept(k).available # AvFalse
        /\ restock_delta > 0
        /\ tick_now - prior[k].status_since = restock_delta
        /\ Count(restocked_codes, k) = 1

\* C2 as stated: a PRESENT item that drops out of the listing in one tick and
\* is listed again in the next, less than the restock window later, is ABSENT
\* after the first tick, PRESENT after the second and restocked in neither.
C2_GapAsStated ==
    \A k \in before.dropped \cap present_keys :
        tick_now - before.tick_now < restock_delta
        => /\ prior[k].status = ABSENT
           /\ state[k].status = PRESENT
           /\ k \notin before.restocked
           /\ k \notin Range(restocked_codes)

\* C2 amended: the same, when the detail re-check of the first tick does not
\* report the item available and the second tick does not list it as
\* explicitly unavailable.
C2_ShortGap ==
    \A k \in (before.dropped \ before.found) \cap present_keys :
        ( /\ tick_now - before.tick_now < restock_delta
          /\ Kept(k).available # AvFalse )
        => /\ prior[k].status = ABSENT
           /\ state[k].status = PRESENT
           /\ k \notin before.restocked
           /\ k \notin Range(restocked_codes)

C2_Witness ==
    \E k \in (before.dropped \ before.found) \cap present_keys :
        /\ tick_now - before.tick_now < restock_delta
        /\ Kept(k).available # AvFalse
        /\ prior[k].status = ABSENT
        /\ state[k].status = PRESENT

C4_SinceKeptWithStatus ==
    \A k \in DOMAIN prior :
        state[k].status = prior[k].status
        => state[k].status_since = prior[k].status_since

C7_PriceChangedIff ==
    \A k \in Processed :
        LET differs == Truthy(FetchedPrice(k)) /\ FetchedPrice(k) # prior[k].price
        IN /\ state[k].price_changed <=> differs
           /\ ~differs => state[k].price = prior[k].price

C7_Witness ==
    \E k \in Processed :
        /\ prior[k].price_changed
        /\ ~state[k].price_changed
        /\ Truthy(FetchedPrice(k))
        /\ FetchedPrice(k) = prior[k].price

\* C8: after a tick, a record of the managed host whose price the tick did not
\* change has price_changed = FALSE, and one whose availability it did not
\* change has availability_changed = FALSE.
C8_FlagsNotSticky ==
    \A k \in HostKeys(prior) :
        /\ state[k].price = prior[k].price => ~state[k].price_changed
        /\ ( /\ state[k].availability_message = prior[k].availability_message
             /\ state[k].available = prior[k].available )
           => ~state[k].availability_changed

\* C9: a record with prev_price set has prev_price # price and prev_price =
\* the price held just before the latest change; a tick that fetched no price
\* or the stored price leaves price and prev_price as they were.
C9_PrevPrice ==
    /\ \A k \in DOMAIN state :
          state[k].prev_price # NONE
          => /\ state[k].prev_price # state[k].price
             /\ state[k].prev_price = price_was[k]
    /\ \A k \in Processed :
          ~(Truthy(FetchedPrice(k)) /\ FetchedPrice(k) # prior[k].price)
          => /\ state[k].price = prior[k].price
             /\ state[k].prev_price = prior[k].prev_price

C9_Witness ==
    \E k \in Processed :
        /\ prior[k].prev_price \notin {NONE, ""}
        /\ state[k].price # prior[k].price
        /\ state[k].prev_price = prior[k].price

\* C10: a tick leaves every record of another host as it was, in every field.
C10_OtherHostsUntouched ==
    \A k \in DOMAIN prior :
        KeyHost(k) # ManagedHost => k \in DOMAIN state /\ state[k] = prior[k]

C10_Witness ==
    /\ tick_now > 0
    /\ OtherKey \in DOMAIN prior
    /\ prior[OtherKey].status = PRESENT
    /\ OtherKey \notin present_keys
    /\ Dropped # {}
    /\ state[OtherKey] = OtherRecord

\* the record map of the latest tick after its absence sweep
Swept == MarkAbsences(prior, present_keys, tick_now)

\* keys whose detail lookup of the latest tick raised or returned nothing
Failed == {k \in DOMAIN details : details[k] = << >>}

\* C11: a record whose detail lookup raised or returned nothing is exactly as
\* the absence sweep left it, the other records of the pass are still
\* re-checked, and the tick ends with every record persisted.
C11_FailedLookupSkipped ==
    /\ \A k \in Failed : state[k] = Swept[k]
    /\ \A k \in Rechecked :
          state[k] = RecheckRecord(Swept[k], details[k][1], tick_now, restock_delta).info
    /\ \A k \in DOMAIN state : k \in DOMAIN db /\ db[k] = RowOf(k, state[k])

C11_Witness ==
    \E k1 \in Failed, k2 \in Rechecked :
        /\ prior[k1].status = PRESENT
        /\ state[k1].status = ABSENT
        /\ state[k1].status_since = tick_now
        /\ state[k2] # Swept[k2]
        /\ state[k2].status = PRESENT

\* the request, the decoding or the parsing of a Product-Variation lookup failed
FetchFailed(response) == response.kind # "payload"

\* C12: a lookup whose request, JSON decoding or payload parsing fails makes
\* fetch_details return nothing without raising, and the record keeps its
\* availability, its stock count and its status.
C12_FailedFetchNoChange ==
    \A k \in DOMAIN responses :
        FetchFailed(responses[k])
        => /\ FetchDetails(CodeOf(k), responses[k]) = [raised |-> FALSE, item |-> << >>]
           /\ state[k].available = Swept[k].available
           /\ state[k].in_stock_allocation = Swept[k].in_stock_allocation
           /\ state[k].status = Swept[k].status

\* the listing merge of steps 3b-3e applied to the swept record of a re-checked
\* key and to the observation its detail lookup returned
AsListed(k) ==
    LET it == [details[k][1] EXCEPT !.code = CodeOf(k)]
        acc == Accumulate(<<it>>, EmptyAcc)
    IN MergePresent(Swept[k], Preferred(Swept, acc, k), tick_now, restock_delta)

SameTracked(a, b) ==
    /\ a.price = b.price
    /\ a.prev_price = b.prev_price
    /\ a.price_changed = b.price_changed
    /\ a.availability_message = b.availability_message
    /\ a.prev_availability_message = b.prev_availability_message
    /\ a.available = b.available
    /\ a.prev_available = b.prev_available
    /\ a.availability_changed = b.availability_changed
    /\ a.in_stock_allocation = b.in_stock_allocation

\* C13 as stated: a successful detail re-check leaves the record with the
\* price, availability, change flags, allocation, status and status_since the
\* listing merge would give it, and reports a restock exactly when the
\* listing merge would.
C13_DetailAsListed ==
    \A k \in Rechecked :
        /\ SameTracked(state[k], AsListed(k).info)
        /\ state[k].status = AsListed(k).info.status
        /\ state[k].status_since = AsListed(k).info.status_since
        /\ k \in Range(restocked_codes) <=> AsListed(k).restocked

\* C13 amended: price, availability, change flags and allocation are as the
\* listing merge would give them; status, status_since and the restocked
\* decision are too when the detail carries an explicit availability, and
\* without one the status and status_since stay as the sweep left them and
\* no restock is reported.
C13_DetailExplicitSignal ==
    \A k \in Rechecked :
        /\ SameTracked(state[k], AsListed(k).info)
        /\ IF details[k][1].available # NONE
           THEN /\ state[k].status = AsListed(k).info.status
                /\ state[k].status_since = AsListed(k).info.status_since
                /\ k \in Range(restocked_codes) <=> AsListed(k).restocked
           ELSE /\ state[k].status = Swept[k].status
                /\ state[k].status_since = Swept[k].status_since
                /\ k \notin Range(restocked_codes)

C13_Witness ==
    \E k \in Rechecked :
        /\ details[k][1].available = AvTrue
        /\ restock_delta > 0
        /\ prior[k].status = ABSENT
        /\ k \in Range(restocked_codes)
        /\ AsListed(k).restocked
        /\ state[k].status_since = tick_now

\* C14: migration maps a key without host prefix to <host>:<key>, keeps every
\* composite key, and applied to its own output returns that output, for the
\* watcher's migration and for the one of the state module alike; the map the
\* watcher starts with is the migration of the map it loaded.
C14_MigrationIdempotent ==
    phase = "run"
    => /\ \A o \in Orders(DOMAIN loaded) :
             LET core == MigrateKeysToComposite(loaded, o, ManagedHost)
                 lib == StateMigrateKeysToComposite(loaded, o, ManagedHost)
             IN /\ DOMAIN core = {IF Composite(k) THEN k ELSE KeyOf(ManagedHost, k) :
                                     k \in DOMAIN loaded}
                /\ DOMAIN lib = {IF Composite(k) THEN k
                                 ELSE KeyOf(IF loaded[k].host # << >> THEN loaded[k].host
                                            ELSE ManagedHost, k) :
                                    k \in DOMAIN loaded}
                /\ \A o2 \in Orders(DOMAIN core) :
                      MigrateKeysToComposite(core, o2, ManagedHost) = core
                /\ \A o2 \in Orders(DOMAIN lib) :
                      StateMigrateKeysToComposite(lib, o2, ManagedHost) = lib
       /\ tick_now = 0
          => state \in {MigrateKeysToComposite(loaded, o, ManagedHost) :
                          o \in Orders(DOMAIN loaded)}

C14_Witness ==
    /\ phase = "run"
    /\ tick_now = 0
    /\ DOMAIN loaded = {LegacyKey, OtherKey}
    /\ DOMAIN state = {KeyOf(ManagedHost, LegacyKey), OtherKey}
    /\ state[KeyOf(ManagedHost, LegacyKey)].name = "Legacy"

\* C15: the key the watcher's startup migration gives a legacy key has the
\* record's own host as prefix when the record has one, the managed host
\* otherwise.
C15_HostFromRecord ==
    (phase = "run" /\ tick_now = 0)
    => \A k \in DOMAIN loaded :
          ~Composite(k)
          => KeyOf(IF loaded[k].host # << >> THEN loaded[k].host ELSE ManagedHost, k)
                \in DOMAIN state

\* C16: what load() returns after a save has exactly the keys of the saved map.
C16_SaveWholeMap ==
    phase = "run" => DOMAIN LoadItemsDict(db) = DOMAIN state

\* C17: every record that existed before a tick exists after it, under the
\* same key and with the same first_seen.
C17_RecordsKept ==
    /\ DOMAIN prior \subseteq DOMAIN state
    /\ \A k \in DOMAIN prior : state[k].first_seen = prior[k].first_seen

C17_Witness ==
    \E k \in HostKeys(prior) \ present_keys :
        /\ prior[k].status = ABSENT
        /\ details[k] = << >>
        /\ present_keys # {}
        /\ state[k].first_seen = prior[k].first_seen
        /\ state[k].first_seen < prior[k].status_since

\* the titles the observations of the latest listing carry for a key
Titles(k) ==
    {listing[i].title : i \in {j \in DOMAIN listing :
                                  /\ KeyOf(ManagedHost, listing[j].code) = k
                                  /\ Truthy(listing[j].title)}}

\* C18: a tick leaves a non-empty image as it is and a non-empty name
\* non-empty.
C18_ImageAndNameKept ==
    \A k \in DOMAIN prior :
        /\ Truthy(prior[k].image) => state[k].image = prior[k].image
        /\ Truthy(prior[k].name) => Truthy(state[k].name)

C18_Witness ==
    \E k \in Rechecked :
        /\ prior[k].image = "a.png"
        /\ details[k][1].image = "b.png"
        /\ state[k].image = "a.png"
        /\ Truthy(prior[k].name)
        /\ ~Truthy(details[k][1].title)

\* C19: a tick changes a stored name only to a non-empty title that an
\* observation of the key carries and that differs from the stored name; a
\* key whose observations carry no title keeps its name.
C19_NameOnlyFromTitle ==
    /\ \A k \in present_keys \cap DOMAIN prior :
          state[k].name # prior[k].name
          => \E t \in Titles(k) : t # prior[k].name /\ state[k].name = t
    /\ \A k \in Rechecked :
          state[k].name # prior[k].name
          => /\ Truthy(details[k][1].title)
             /\ details[k][1].title # prior[k].name
             /\ state[k].name = details[k][1].title

\* C20: the present count of a tick is the number of keys of its present set
\* whose kept availability is not explicitly false, and is at most the size
\* of the present set.
C20_PresentCount ==
    /\ total_now = Cardinality({k \in present_keys : Kept(k).available # AvFalse})
    /\ total_now <= Cardinality(present_keys)

\* the observations of a key in the listing of the latest tick, in fetch order
Observed(k) == {i \in DOMAIN listing : KeyOf(ManagedHost, listing[i].code) = k}

\* the last value of a field that an observation of the key carried, absent
\* when no observation carried one
LastGiven(k, field, absent) ==
    LET given == {i \in Observed(k) : listing[i][field] # absent}
    IN IF given = {} THEN absent
       ELSE listing[CHOOSE i \in given : \A j \in given : j <= i][field]

\* the per-key values the fetch loop of the latest tick ended with
Accumulated == Accumulate(listing, EmptyAcc)

\* C21: when a code is observed more than once in a tick, the value used for
\* each field (availability signal, stock allocation, url, title, image,
\* price, availability message) is the last non-absent one; a later absent
\* value never replaces an earlier present one.
C21_LastGivenValueUsed ==
    \A k \in present_keys :
        Cardinality(Observed(k)) > 1 =>
            /\ Get(Accumulated.available_for_key, k, NONE)
                   = LastGiven(k, "available", NONE)
            /\ Get(Accumulated.allocation_for_key, k, NoAlloc)
                   = LastGiven(k, "in_stock_allocation", NoAlloc)
            /\ Get(Accumulated.url_for_key, k, NONE) = LastGiven(k, "url", NONE)
            /\ LastGiven(k, "title", NONE) # NONE =>
                   Get(Accumulated.name_for_key, k, NONE) = LastGiven(k, "title", NONE)
            /\ Get(Accumulated.image_for_key, k, NONE) = LastGiven(k, "image", NONE)
            /\ Get(Accumulated.price_for_key, k, NONE) = LastGiven(k, "price", NONE)
            /\ Get(Accumulated.availability_message_for_key, k, NONE)
                   = LastGiven(k, "availability", NONE)

\* the latest tick ran to its end
TickDone == ticks > 0 /\ raised = NONE /\ phase \in {"ticked", "run", "returned"}

\* C22: in a tick that has events to report, send is invoked exactly once on
\* every configured notifier, in order and with the same subject and bodies,
\* whichever of the earlier notifiers raised; a raising notifier does not
\* make the tick fail.
C22_EveryNotifierSentOnce ==
    /\ Len(sends) <= Len(notifiers)
    /\ \A i \in DOMAIN sends :
          /\ sends[i].notifier = notifiers[i]
          /\ sends[i].message = RenderChangeDigest(new_codes, restocked_codes, total_now)
    /\ (TickDone /\ Events) => Len(sends) = Len(notifiers)
    /\ sends # << >> => raised = NONE /\ phase # "caught"

C22_Witness ==
    /\ TickDone
    /\ Events
    /\ Len(sends) > 1
    /\ sends[1].raised
    /\ ~sends[2].raised

\* every record of the in-memory map is in the store as save_items writes it
Persisted == \A k \in DOMAIN state : k \in DOMAIN db /\ db[k] = RowOf(k, state[k])

\* C23: within a tick the record map is persisted before any notifier is
\* invoked; when the persistence write raises, no notifier is invoked in that
\* tick and the failure reaches the tick-level handler.
C23_PersistBeforeNotify ==
    /\ (phase = "notify" \/ sends # << >>) => Persisted
    /\ raised = "persist" =>
          /\ sends = << >>
          /\ ~notified
          /\ phase \in {"caught", "run", "returned"}

C23_Witness ==
    /\ raised = "persist"
    /\ phase = "caught"
    /\ Events
    /\ notifiers # << >>
    /\ ~Persisted

\* the program is inside a call of tick() or has just left it
InTick == phase \in {"persist", "notify", "ticked", "caught"}

\* C24: in continuous mode, after any tick that raises, the driver sleeps for
\* the interval and starts another tick: the loop never ends because of a
\* tick error, and a tick starts only after the one before it has ended and
\* the sleep after it is over.
C24_LoopSurvivesTickErrors ==
    /\ [](~once => phase # "returned")
    /\ [](~once => ticks = sleeps + (IF InTick THEN 1 ELSE 0))
    /\ \A n \in 0..MaxTime :
          (~once /\ phase = "caught" /\ ticks = n /\ clock < MaxTime)
              ~> (ticks = n + 1 /\ sleeps = n)

\* a tick is running on a record that the tick before it failed to persist
C24_Witness ==
    /\ ~once
    /\ phase = "persist"
    /\ sleeps > 0
    /\ \E k \in DOMAIN prior : k \notin DOMAIN db

\* C25: in run-once mode the driver performs exactly one tick and then
\* returns without sleeping, both when that tick succeeds and when it raises.
C25_OnceOneTick ==
    once =>
        /\ sleeps = 0
        /\ ticks = (IF InTick \/ phase = "returned" THEN 1 ELSE 0)

C25_Witness ==
    /\ once
    /\ phase = "returned"
    /\ raised = "persist"
    /\ ticks = 1

\* one of run_watcher's configuration checks fails: several URLs, no URL, or
\* no store location
BadConfig ==
    \/ ResolveTargetUrl(url_override, env).raised
    \/ ResolveTargetUrl(url_override, env).url = << >>
    \/ Strip(env.STATE_DB) = << >>

\* C26: when no target URL can be resolved, when more than one URL is given,
\* or when no record store location (STATE_DB) is set, run_watcher exits
\* before the loop: no fetch, no load or save of the record map and no
\* notification happens.
C26_BadConfigExits ==
    /\ [](BadConfig => /\ phase \in {"boot", "exit"}
                       /\ ticks = 0
                       /\ loaded = << >>
                       /\ state = << >>
                       /\ notifiers = << >>
                       /\ sends = << >>)
    /\ [][BadConfig => db' = db /\ listing' = listing /\ clock' = clock]_vars

C26_Witness ==
    /\ phase = "exit"
    /\ ResolveTargetUrl(url_override, env).raised
    /\ db # << >>
    /\ listeners # << >>

\* C27: when the listing fetch raises at any point of a tick (first page or a
\* later page), no record of the in-memory map is modified, nothing is
\* persisted and no notifier is invoked in that tick.
C27_FetchRaiseNoEffect ==
    [][raised' = "fetch" =>
          /\ state' = state
          /\ db' = db
          /\ sends' = << >>
          /\ notified' = FALSE
          /\ phase' \in {"caught", "run", "returned"}]_vars

\* the fetch raised after it had yielded an item the map does not hold yet
C27_Witness ==
    /\ raised = "fetch"
    /\ phase = "caught"
    /\ listing # << >>
    /\ \E i \in DOMAIN listing : KeyOf(ManagedHost, listing[i].code) \notin DOMAIN state
    /\ notifiers # << >>

\* C28: round trip of the item store: for every record map m with composite
\* keys, load_items_dict after save_items(m) returns the same key set, and for
\* every key the same url, name, status, image, price, availability_message,
\* available (true, false and unset kept apart) and in_stock_allocation.
C28_StoreRoundTrip ==
    phase = "loaded" =>
        /\ DOMAIN loaded = DOMAIN state
        /\ \A k \in DOMAIN state :
              /\ loaded[k].url = state[k].url
              /\ loaded[k].name = state[k].name
              /\ loaded[k].status = state[k].status
              /\ loaded[k].image = state[k].image
              /\ loaded[k].price = state[k].price
              /\ loaded[k].availability_message = state[k].availability_message
              /\ loaded[k].available = state[k].available
              /\ loaded[k].in_stock_allocation = state[k].in_stock_allocation

\* the ids list_listeners(user_id=u) returns
Listed(u) ==
    LET found == ListListeners(listeners, <<u>>, NONE)
    IN {found[i].id : i \in DOMAIN found}

\* C29: listener operations are scoped to the owning user: after any sequence
\* of add_listener, set_listener_enabled and delete_listener calls by any
\* users, list_listeners(user_id=u) returns exactly the listeners added for u
\* and not deleted by u, and a toggle or delete issued with user_id=u changes
\* no listener owned by another user.
C29_ListenersScopedToOwner ==
    /\ [](\A u \in Users :
            /\ Listed(u) = {id \in DOMAIN added : added[id] = u /\ <<id, u>> \notin deleted}
            /\ Len(ListListeners(listeners, <<u>>, NONE)) = Cardinality(Listed(u)))
    /\ [][call'.op \in {"toggle", "delete"} =>
            \A id \in DOMAIN listeners :
                listeners[id].user_id # call'.user_id[1] =>
                    id \in DOMAIN listeners' /\ listeners'[id] = listeners[id]]_vars

\* a user asked to delete a listener of another user, which is still listed
\* for its owner, while the owner has deleted another one
C29_Witness ==
    /\ call.op = "delete"
    /\ \E id \in DOMAIN listeners :
          /\ <<id, call.user_id[1]>> \in deleted
          /\ listeners[id].user_id # call.user_id[1]
          /\ id \in Listed(listeners[id].user_id)
          /\ \E other \in DOMAIN added :
                /\ added[other] = listeners[id].user_id
                /\ other \notin DOMAIN listeners

\* the rows of a Google subject
RowsOf(table, sub) == {i \in DOMAIN table : table[i].provider = "google" /\ table[i].sub = sub}

\* C30: after any sequence of upsert_user_google calls there is at most one
\* user row per Google subject: a second upsert with the same sub returns the
\* same id as the first and replaces email, name and picture (picture may
\* become null), and get_user_by_id then returns the replaced values.
C30_OneUserPerSub ==
    /\ [](\A sub \in Subs : Cardinality(RowsOf(users, sub)) <= 1)
    /\ [][call'.op = "upsert" =>
            /\ \A i \in RowsOf(users, call'.sub) : returned'.id = i
            /\ returned'.id \in RowsOf(users', call'.sub)
            /\ returned'.email = call'.email
            /\ returned'.name = call'.name
            /\ returned'.picture = call'.picture
            /\ GetUserById(users', returned'.id) = returned']_vars
    /\ [](call.op = "get" /\ call.user_id \in DOMAIN users =>
            /\ returned.id = call.user_id
            /\ returned.email = users[call.user_id].email
            /\ returned.name = users[call.user_id].name
            /\ returned.picture = users[call.user_id].picture)

\* the first subject signed in again after a second one was added, and its
\* picture is now null
C30_Witness ==
    /\ call.op = "upsert"
    /\ Cardinality(DOMAIN users) = 2
    /\ returned.id = 1
    /\ returned.picture = NONE
    /\ returned.email = "jane2@mail"

\* the positions of a raw string at which an entry begins: a piece that is
\* neither blank nor a separator, with only blanks between it and the
\* separator (or the start) before it
EntryStarts(raw) ==
    {i \in DOMAIN raw :
        /\ raw[i] \notin {" ", ",", "\n"}
        /\ \A j \in 1..(i - 1) :
              (\A k \in j..(i - 1) : raw[k] \notin {",", "\n"}) => raw[j] = " "}

\* the entry that begins at i, up to its last piece that is not blank
EntryAt(raw, i) ==
    LET inside == {k \in i..Len(raw) :
                      /\ raw[k] # " "
                      /\ \A m \in i..k : raw[m] \notin {",", "\n"}}
    IN SubSeq(raw, i, CHOOSE k \in inside : \A m \in inside : m <= k)

\* C31: normalize_single_url returns the trimmed URL when the input holds
\* exactly one entry, the empty string for null or blank input, and raises
\* the multiple-URLs error when the input holds more than one comma- or
\* newline-separated entry; in that case the watch command fails without
\* calling run_watcher.
C31_NormalizeSingleUrl ==
    phase # "cli" =>
        \E starts \in {IF call.url = << >> THEN {} ELSE EntryStarts(call.url[1])} :
            /\ Cardinality(starts) = 0 =>
                  returned = [raised |-> FALSE, url |-> << >>] /\ phase = "boot"
            /\ Cardinality(starts) = 1 =>
                  /\ ~returned.raised
                  /\ \A i \in starts : returned.url = EntryAt(call.url[1], i)
                  /\ phase = "boot"
                  /\ url_override = <<returned.url>>
            /\ Cardinality(starts) > 1 =>
                  /\ returned.raised
                  /\ phase = "usage_error"
                  /\ url_override = << >>

\* two entries separated by a newline
C31_Witness ==
    /\ phase = "usage_error"
    /\ call.url = <<<<"a", "\n", "b">>>>

\* every record of the map is of the unified schema
IsStateMap(st) == \A k \in DOMAIN st : st[k].status # << >> /\ st[k].status_since # << >>

\* C32: round trip of the JSON state file: for every state map s written by
\* save_state, load_state on the same path returns a map with the same key
\* set, and for every key the same url, name, status and status_since.
C32_JsonRoundTrip ==
    (phase = "loaded" /\ IsStateMap(state)) =>
        /\ DOMAIN loaded = DOMAIN state
        /\ \A k \in DOMAIN loaded \cap DOMAIN state :
              /\ loaded[k].url = state[k].url
              /\ loaded[k].name = state[k].name
              /\ loaded[k].status = state[k].status[1]
              /\ loaded[k].status_since = state[k].status_since[1]

\* C33: availability_changed is true exactly when the fetched message is
\* non-empty and differs from the stored message, or the fetched boolean is
\* not None and differs from the stored boolean; a field that changed has its
\* stored value moved to its prev field (the empty string when there was no
\* message), and a field that did not change keeps its value and its prev.
C33_AvailabilityTracked ==
    phase = "tracked" =>
        \A k \in DOMAIN prior :
            LET m == call.availability_message
                a == call.available
                msg_differs == m \notin {NONE, ""} /\ m # prior[k].availability_message
                av_differs == a # NONE /\ a # prior[k].available
            IN /\ state[k].availability_changed <=> (msg_differs \/ av_differs)
               /\ msg_differs =>
                     /\ state[k].availability_message = m
                     /\ state[k].prev_availability_message =
                            (IF prior[k].availability_message = NONE THEN ""
                             ELSE prior[k].availability_message)
               /\ ~msg_differs =>
                     /\ state[k].availability_message = prior[k].availability_message
                     /\ state[k].prev_availability_message =
                            prior[k].prev_availability_message
               /\ av_differs =>
                     /\ state[k].available = a
                     /\ state[k].prev_available = prior[k].available
               /\ ~av_differs =>
                     /\ state[k].available = prior[k].available
                     /\ state[k].prev_available = prior[k].prev_available

\* only the boolean differs: the flag is raised, the message and its prev stay
C33_Witness ==
    /\ phase = "tracked"
    /\ call.availability_message = "Low Stock"
    /\ call.available = AvFalse
    /\ \E k \in DOMAIN prior :
          /\ prior[k].availability_message = "Low Stock"
          /\ prior[k].prev_availability_message = "Low Stock"
          /\ prior[k].available = AvTrue
          /\ ~prior[k].availability_changed
          /\ state[k].availability_changed
          /\ state[k].prev_available = AvTrue
          /\ state[k].prev_availability_message = "Low Stock"

C35_NewReportedOnce ==
    [][ /\ DOMAIN db \subseteq DOMAIN db'
        /\ (phase \in {"persist", "notify"} /\ phase' \in {"notify", "ticked"}) =>
              new_codes' = new_codes
        /\ (phase = "persist" /\ phase' \in {"notify", "ticked"}) =>
              \A k \in Range(new_codes) : k \notin DOMAIN db /\ k \in DOMAIN db'
        /\ Len(sends') > Len(sends) =>
              \A k \in Range(new_codes) : k \in DOMAIN db ]_vars

\* the tick before this one created the record and the process was killed
\* before it slept; the record was in the store at the restart and this tick
\* does not report it again
C35_Witness ==
    /\ phase = "persist"
    /\ ticks = 2
    /\ sleeps = 0
    /\ new_codes = << >>
    /\ \E k \in present_keys \cap DOMAIN prior : born[k] = before.tick_now

\* C39: records deleted from the store by the state clear command while the
\* watcher runs stay deleted: the persist of a tick writes no row that the
\* store lacks unless the tick observed the item, and an item observed when
\* the store has no row for it is reported as new.
C39_DeletionHonoured ==
    [][ /\ (phase = "persist" /\ phase' \in {"notify", "ticked"}) =>
              \A k \in DOMAIN db' \ DOMAIN db : k \in present_keys
        /\ (phase = "run" /\ phase' = "persist") =>
              \A k \in present_keys' \ DOMAIN db : k \in Range(new_codes') ]_vars

\* C36: for every restock window, zero included, a key is put in
\* restocked_codes only if its record was ABSENT at the start of the tick; a
\* record that was PRESENT, dropped out of the listing and was found available
\* by the detail re-check of the same tick yields no restocked event.
C36_RestockedWasAbsent ==
    \A k \in Range(restocked_codes) :
        k \in DOMAIN prior /\ prior[k].status = ABSENT

\* C37: in every tick new_codes and restocked_codes have no key in common and
\* neither holds a key more than once, whatever the observations (the same
\* code listed twice included) and the detail results are.
C37_EventsDistinct ==
    /\ Range(new_codes) \cap Range(restocked_codes) = {}
    /\ \A k \in Range(new_codes) : Count(new_codes, k) = 1
    /\ \A k \in Range(restocked_codes) : Count(restocked_codes, k) = 1

\* one code listed twice is new once, in a tick that also restocks a key
C37_Witness ==
    /\ Len(listing) = 2
    /\ listing[1].code = listing[2].code
    /\ Count(new_codes, KeyOf(ManagedHost, listing[1].code)) = 1
    /\ restocked_codes # << >>

\* C38: key migration loses no record: the map the startup migration returns
\* has as many records as the map it was given, also for a store that an
\* earlier start has already migrated.
C38_MigrationKeepsCount ==
    (phase = "run" /\ tick_now = 0) =>
        Cardinality(DOMAIN state) = Cardinality(DOMAIN loaded)

\* the positions of all posted messages, one after the other
RECURSIVE Flatten(_)
Flatten(posts) == IF posts = << >> THEN << >> ELSE Head(posts) \o Flatten(Tail(posts))

\* C40: send splits a body by line so that every posted message is at most
\* 1900 characters long, for every body (one with a single line longer than
\* the limit included), and the messages hold the lines of the body in order,
\* none lost and none repeated.
C40_ChunksWithinLimit ==
    (phase = "sent" /\ Truthy(call.webhook_url)) =>
        \E content \in {StripLines(IF call.text_body # << >> THEN call.text_body
                                   ELSE call.title)} :
            /\ \A i \in DOMAIN sends : JoinedLen(content, sends[i]) <= 1900
            /\ Flatten(sends) = [i \in 1..Len(content) |-> i]

====
